---------------------------- MODULE Spec2Model ----------------------------
(***************************************************************************)
(* Article reader: the article-to-structured-text pipeline                 *)
(* (functions/lib/article-parser.ts), its validation helpers, and the      *)
(* article endpoint that runs it behind the rate limiter; the Gemini       *)
(* client (functions/lib/gemini.ts) and the translate and word endpoints   *)
(* that call it.                                                           *)
(*                                                                         *)
(* A JavaScript string is modelled as a sequence of one-character strings, *)
(* so that the regular expressions of the source act on characters.        *)
(***************************************************************************)
EXTENDS Integers, Sequences, FiniteSets, TLC

VARIABLES
    text,        \* argument handed to splitIntoSentences / splitIntoWords
    sentences,   \* outcome of splitIntoSentences(text)
    words,       \* outcome of splitIntoWords(text)
    html,        \* the html argument of extractArticle / parseArticle
    url,         \* the url argument of extractArticle / parseArticle
    extracted,   \* outcome of extractArticle(html, url)
    parsed,      \* outcome of parseArticle(html, url)
    requests,    \* the invocations of the three endpoint handlers
    kv,          \* the RATE_LIMIT_KV namespace
    env,         \* the environment bindings of the deployment
    served,      \* per key: requests served with 200 in the current window
    now,         \* Date.now() in the browser, in milliseconds
    wordCache,   \* CacheService.wordCache: key string -> entry
    translationCache,  \* CacheService.translationCache: sentence -> entry
    wordSets,    \* per (word, context): the latest setWordMeaning since clear()
    translationSets,   \* per sentence: the latest setTranslation since clear()
    cacheOps,    \* number of set and clear calls made on the cache
    returned,    \* what the latest CacheService call returned
    panelVisible,  \* the bottom panel's container has the class 'visible'
    panelContent,  \* what the bottom panel's .panel-content element holds
    panelState,  \* the state last applied to the bottom panel by update
    panelClick,  \* target of the click, when the latest panel event is one
    longPressTimer,  \* per sentence element: its longPressTimer (0 is null)
    timers,      \* the timeouts set with setTimeout and not yet run or cleared
    events,      \* the events dispatched on the reader and the callbacks made
    lookups,     \* the App's showWordMeaning / showTranslation calls, in order
    screen,      \* what the App shows in #app above the bottom panel
    articleFetches   \* the App's fetchArticle calls, in order

textVars == << text, sentences, words >>
parseVars == << html, url, extracted, parsed >>
apiVars == << requests, kv, env, served >>
cacheVars ==
    << now, wordCache, translationCache, wordSets, translationSets, cacheOps,
       returned >>
panelVars == << panelVisible, panelContent, panelState, panelClick >>
cacheMaps ==
    << wordCache, translationCache, wordSets, translationSets, cacheOps,
       returned >>
touchVars == << longPressTimer, timers, events >>
loadVars == << screen, articleFetches >>
appVars == << lookups, loadVars >>
clientVars == << cacheVars, panelVars, touchVars, appVars >>
vars ==
    << text, sentences, words, html, url, extracted, parsed, requests, kv,
       env, served, now, wordCache, translationCache, wordSets,
       translationSets, cacheOps, returned, panelVisible, panelContent,
       panelState, panelClick, longPressTimer, timers, events, lookups,
       screen, articleFetches >>

(***************************************************************************)
(* Generic sequence helpers (Array.prototype.map / filter, String methods) *)
(***************************************************************************)
RECURSIVE Concat(_)
Concat(ss) == IF ss = << >> THEN << >> ELSE Head(ss) \o Concat(Tail(ss))

\* does pat occur in s starting at index i (1-based)
StartsWithAt(s, i, pat) ==
    /\ i + Len(pat) - 1 <= Len(s)
    /\ \A k \in 1..Len(pat) : s[i + k - 1] = pat[k]

\* String.prototype.replace with a global regex of a literal pattern:
\* leftmost, non-overlapping occurrences, scanning left to right
RECURSIVE ReplaceAllFrom(_, _, _, _)
ReplaceAllFrom(s, pat, rep, i) ==
    IF i > Len(s) THEN << >>
    ELSE IF StartsWithAt(s, i, pat)
         THEN rep \o ReplaceAllFrom(s, pat, rep, i + Len(pat))
         ELSE << s[i] >> \o ReplaceAllFrom(s, pat, rep, i + 1)

ReplaceAll(s, pat, rep) == ReplaceAllFrom(s, pat, rep, 1)

\* the characters the regex class \s and String.prototype.trim treat as
\* white space (the model's alphabet has these three of them)
WHITESPACE == {" ", "\n", "\t"}

\* first index >= i of s that holds no white space (Len(s)+1 when none)
RECURSIVE SkipSpace(_, _)
SkipSpace(s, i) ==
    IF i <= Len(s) /\ s[i] \in WHITESPACE THEN SkipSpace(s, i + 1) ELSE i

\* last index <= i of s that holds no white space (0 when none)
RECURSIVE SkipSpaceBack(_, _)
SkipSpaceBack(s, i) ==
    IF i >= 1 /\ s[i] \in WHITESPACE THEN SkipSpaceBack(s, i - 1) ELSE i

\* String.prototype.trim
trim(s) == SubSeq(s, SkipSpace(s, 1), SkipSpaceBack(s, Len(s)))

NonEmpty(s) == Len(s) > 0

(***************************************************************************)
(* article-parser.ts : splitIntoSentences                                  *)
(***************************************************************************)
\* the list with its first entry lost
ABBREVIATIONS_WithoutMr ==
    << <<"M", "r", "s">>, <<"M", "s">>, <<"D", "r">>,
       <<"P", "r", "o", "f">>, <<"S", "r">>, <<"J", "r">> >>

ABBREVIATIONS ==
    << <<"M", "r">>, <<"M", "r", "s">>, <<"M", "s">>, <<"D", "r">>,
       <<"P", "r", "o", "f">>, <<"S", "r">>, <<"J", "r">> >>

\* the placeholder the source writes in place of an abbreviation's period
DOT == <<"<", "<", "<", "D", "O", "T", ">", ">", ">">>

\* for (const abbr of ABBREVIATIONS) processed = processed.replace(/abbr\./g, abbr<<<DOT>>>)
RECURSIVE maskFrom(_, _)
maskFrom(processed, k) ==
    IF k > Len(ABBREVIATIONS) THEN processed
    ELSE maskFrom(ReplaceAll(processed,
                             ABBREVIATIONS[k] \o <<".">>,
                             ABBREVIATIONS[k] \o DOT), k + 1)

\* the character class [.!?] of the split regex
TERMINATORS == {".", "!", "?"}

\* String.prototype.split(/(?<=[.!?])\s+/): p is the start of the current
\* piece, q the index where a match is tried; the final piece is always
\* pushed, so the empty string gives one empty piece
RECURSIVE splitSentenceEnd(_, _, _)
splitSentenceEnd(s, p, q) ==
    IF q > Len(s) THEN << SubSeq(s, p, Len(s)) >>
    ELSE IF q > 1 /\ s[q - 1] \in TERMINATORS /\ s[q] \in WHITESPACE
         THEN << SubSeq(s, p, q - 1) >>
                  \o splitSentenceEnd(s, SkipSpace(s, q), SkipSpace(s, q))
         ELSE splitSentenceEnd(s, p, q + 1)

\* s => s.replace(/<<<DOT>>>/g, '.').trim()
unmask(s) == trim(ReplaceAll(s, DOT, <<".">>))

\* the segmenter without its final filter
splitIntoSentences_KeepEmpty(t) ==
    LET processed == maskFrom(t, 1)
        pieces    == splitSentenceEnd(processed, 1, 1)
    IN  [i \in 1..Len(pieces) |-> unmask(pieces[i])]

splitIntoSentences(t) ==
    LET processed == maskFrom(t, 1)
        pieces    == splitSentenceEnd(processed, 1, 1)
        mapped    == [i \in 1..Len(pieces) |-> unmask(pieces[i])]
    IN  SelectSeq(mapped, NonEmpty)

(***************************************************************************)
(* article-parser.ts : splitIntoWords                                      *)
(***************************************************************************)
\* the character class [.,!?;:'"()] of the replace regex
PUNCTUATION == {".", ",", "!", "?", ";", ":", "'", "\"", "(", ")"}

NotPunctuation(c) == c \notin PUNCTUATION

\* String.prototype.split(/\s+/)
RECURSIVE splitSpace(_, _, _)
splitSpace(s, p, q) ==
    IF q > Len(s) THEN << SubSeq(s, p, Len(s)) >>
    ELSE IF s[q] \in WHITESPACE
         THEN << SubSeq(s, p, q - 1) >>
                  \o splitSpace(s, SkipSpace(s, q), SkipSpace(s, q))
         ELSE splitSpace(s, p, q + 1)

\* the tokenizer without its final filter
splitIntoWords_KeepEmpty(sentence) ==
    splitSpace(SelectSeq(sentence, NotPunctuation), 1, 1)

splitIntoWords(sentence) ==
    SelectSeq(splitSpace(SelectSeq(sentence, NotPunctuation), 1, 1), NonEmpty)

(***************************************************************************)
(* Values handed to the parser.                                            *)
(*                                                                         *)
(* An html string is either empty or a document; what parseHTML and        *)
(* Readability.parse() make of a document is part of the document: null,   *)
(* or an article whose title and textContent may each be missing.          *)
(* A url string carries what `new URL(url)` makes of it.                   *)
(***************************************************************************)
Missing == [present |-> FALSE, val |-> << >>]
Some(v) == [present |-> TRUE, val |-> v]

NullArticle == [isNull |-> TRUE, title |-> Missing, textContent |-> Missing]
Article(t, c) == [isNull |-> FALSE, title |-> t, textContent |-> c]

EmptyHtml == [empty |-> TRUE, article |-> NullArticle]
Document(a) == [empty |-> FALSE, article |-> a]

UrlHttps ==
    [str |-> "https://example.com/a", parses |-> TRUE, protocol |-> "https:",
     hostname |-> "example.com", port |-> "", host |-> "example.com"]
UrlHttpPort ==
    [str |-> "http://news.example.org:8080/b", parses |-> TRUE,
     protocol |-> "http:", hostname |-> "news.example.org", port |-> "8080",
     host |-> "news.example.org:8080"]
UrlFtp ==
    [str |-> "ftp://example.com/f", parses |-> TRUE, protocol |-> "ftp:",
     hostname |-> "example.com", port |-> "", host |-> "example.com"]
UrlInvalid ==
    [str |-> "not-a-valid-url", parses |-> FALSE, protocol |-> "",
     hostname |-> "", port |-> "", host |-> ""]
UrlEmpty ==
    [str |-> "", parses |-> FALSE, protocol |-> "", hostname |-> "",
     port |-> "", host |-> ""]

\* outcome of a call: a returned value or a thrown error
Return(v) == [tag |-> "return", value |-> v]
Throw(name, message) ==
    [tag |-> "throw", error |-> [name |-> name, message |-> message]]
NotCalled == [tag |-> "none"]

\* outcome of a text function: not yet called, or the sequence it returned
NotRun == [done |-> FALSE, value |-> << >>]
Returned(v) == [done |-> TRUE, value |-> v]

\* the variables of a part of the program that a specification leaves alone
TextIdle ==
    /\ text = << >>
    /\ sentences = NotRun
    /\ words = NotRun

ParseIdle ==
    /\ html = EmptyHtml
    /\ url = UrlEmpty
    /\ extracted = NotCalled
    /\ parsed = NotCalled

(***************************************************************************)
(* The browser's session cache (src/services/api-client.ts, CacheService)  *)
(***************************************************************************)
CACHE_TTL == 24 * 60 * 60 * 1000

\* the words, contexts and sentences the cache is called with; a colon is
\* an ordinary character of a JavaScript string
CacheWords == { <<"a">>, <<"a", ":", "b">> }
CacheContexts == { <<"c">>, <<"b", ":", "c">> }
CacheSentences == { <<"c">>, <<"b", ":", "c">>, <<"a", ":", "c">> }
WordPairs == CacheWords \X CacheContexts

\* the values stored: WordMeaning objects, and translations (strings)
Meaning1 == [meaning |-> "m1", pos |-> "noun", example |-> "e1"]
Meaning2 == [meaning |-> "m2", pos |-> "verb", example |-> "e2"]
Meanings == { Meaning1, Meaning2 }
Translations == { << >>, <<"t">> }

\* `${word}:${context}`
WordKey(word, context) == word \o <<":">> \o context

WordKeys == { WordKey(p[1], p[2]) : p \in WordPairs }

\* a Map entry { data, timestamp }
CacheEntry(data, timestamp) == [data |-> data, timestamp |-> timestamp]

\* new Map()
EmptyMap(keys) == [k \in keys |-> Missing]

\* a method that returns nothing
Void == [op |-> "", args |-> << >>, value |-> Missing]

CacheIdle ==
    /\ now = 0
    /\ wordCache = EmptyMap(WordKeys)
    /\ translationCache = EmptyMap(CacheSentences)
    /\ wordSets = EmptyMap(WordPairs)
    /\ translationSets = EmptyMap(CacheSentences)
    /\ cacheOps = 0
    /\ returned = Void

(***************************************************************************)
(* The bottom panel (src/components/bottom-panel.ts)                       *)
(***************************************************************************)
\* a BottomPanelState: type, and the optional word, meaning, translation
\* and error
PanelState(type) ==
    [type |-> type, word |-> Missing, meaning |-> Missing,
     translation |-> Missing, error |-> Missing]

HiddenState == PanelState("hidden")
LoadingState == PanelState("loading")
NoState == PanelState("")

\* what .panel-content holds: nothing, or one block of the given class
\* with the texts put into it
PanelContent(kind, t, meaning) ==
    [kind |-> kind, text |-> t, meaning |-> meaning]

EmptyContent == PanelContent("", << >>, Missing)

PanelIdle ==
    /\ panelVisible = FALSE
    /\ panelContent = EmptyContent
    /\ panelState = NoState
    /\ panelClick = ""

(***************************************************************************)
(* Long press on a sentence (src/components/article-reader.ts)             *)
(***************************************************************************)
\* the texts of the sentence elements of the article shown
TouchSentences == { "s1", "s2" }

\* longPressTimer = null
NoTimer == 0

TouchIdle ==
    /\ longPressTimer = [s \in TouchSentences |-> NoTimer]
    /\ timers = { }
    /\ events = << >>

\* the screens of the App: the URL form, the loading line, the article with
\* its back button, the error with its retry button
Screen(view) == [view |-> view, article |-> [source |-> << >>],
                 message |-> << >>]

\* showUrlInput, lines 21-29
showUrlInput == Screen("input")

LoadIdle ==
    /\ screen = showUrlInput
    /\ articleFetches = << >>

AppIdle == lookups = << >> /\ LoadIdle

ClientIdle == CacheIdle /\ PanelIdle /\ TouchIdle /\ AppIdle

\* x || ''
OrEmpty(opt) == IF opt.present THEN opt.val ELSE << >>

(***************************************************************************)
(* article-parser.ts : extractArticle                                      *)
(***************************************************************************)
\* the extractor parsing the url before it looks at the html
extractArticle_UrlFirst(h, u) ==
    IF ~u.parses THEN Throw("TypeError", "Invalid URL")
    ELSE IF h.empty THEN Throw("Error", "HTML content is required")
    ELSE IF h.article.isNull THEN Throw("Error", "Failed to parse article")
    ELSE Return([title   |-> OrEmpty(h.article.title),
                 content |-> OrEmpty(h.article.textContent),
                 source  |-> u.hostname])

\* the extractor taking the host, port included, as the source
extractArticle_UsesHost(h, u) ==
    IF h.empty THEN Throw("Error", "HTML content is required")
    ELSE IF h.article.isNull THEN Throw("Error", "Failed to parse article")
    ELSE IF ~u.parses THEN Throw("TypeError", "Invalid URL")
    ELSE Return([title   |-> OrEmpty(h.article.title),
                 content |-> OrEmpty(h.article.textContent),
                 source  |-> u.host])

extractArticle(h, u) ==
    IF h.empty THEN Throw("Error", "HTML content is required")
    ELSE IF h.article.isNull THEN Throw("Error", "Failed to parse article")
    ELSE IF ~u.parses THEN Throw("TypeError", "Invalid URL")
    ELSE Return([title   |-> OrEmpty(h.article.title),
                 content |-> OrEmpty(h.article.textContent),
                 source  |-> u.hostname])

(***************************************************************************)
(* article-parser.ts : parseArticle                                        *)
(***************************************************************************)
\* String.prototype.split(/\n\n+/)
RECURSIVE NewlineRunEnd(_, _)
NewlineRunEnd(s, i) ==
    IF i <= Len(s) /\ s[i] = "\n" THEN NewlineRunEnd(s, i + 1) ELSE i

RECURSIVE splitParagraphs(_, _, _)
splitParagraphs(s, p, q) ==
    IF q > Len(s) THEN << SubSeq(s, p, Len(s)) >>
    ELSE IF q < Len(s) /\ s[q] = "\n" /\ s[q + 1] = "\n"
         THEN << SubSeq(s, p, q - 1) >>
                  \o splitParagraphs(s, NewlineRunEnd(s, q), NewlineRunEnd(s, q))
         ELSE splitParagraphs(s, p, q + 1)

\* the paragraph filter without its trim
NotBlank_NoTrim(p) == Len(p) > 0

\* p => p.trim().length > 0
NotBlank(p) == Len(trim(p)) > 0

\* the structurer leaving every words list empty
toParagraph_WithoutWords(paragraphText) ==
    LET ss == splitIntoSentences(paragraphText)
    IN  [sentences |->
            [j \in 1..Len(ss) |-> [text |-> ss[j], words |-> << >>]]]

\* the paragraph builder tokenizing the paragraph instead of the sentence
toParagraph_WordsOfParagraph(paragraphText) ==
    LET ss == splitIntoSentences(paragraphText)
    IN  [sentences |->
            [j \in 1..Len(ss) |->
                [text |-> ss[j], words |-> splitIntoWords(paragraphText)]]]

\* paragraphText => ({ sentences: splitIntoSentences(paragraphText).map(...) })
toParagraph(paragraphText) ==
    LET ss == splitIntoSentences(paragraphText)
    IN  [sentences |->
            [j \in 1..Len(ss) |->
                [text |-> ss[j], words |-> splitIntoWords(ss[j])]]]
\* the structurer collecting paragraphs in an array shared by all calls
parseArticle_SharedParagraphs(h, u) ==
    LET ex    == extractArticle(h, u)
        prior == IF \E q \in DOMAIN requests : requests[q].article.tag = "return"
                 THEN (CHOOSE a \in { requests[q].article :
                                         q \in DOMAIN requests } :
                           a.tag = "return").value.paragraphs
                 ELSE << >>
    IN  IF ex.tag = "throw" THEN ex
        ELSE LET paragraphTexts ==
                     SelectSeq(splitParagraphs(ex.value.content, 1, 1), NotBlank)
             IN  Return([title      |-> ex.value.title,
                         source     |-> ex.value.source,
                         paragraphs |->
                             prior \o [i \in 1..Len(paragraphTexts) |->
                                          toParagraph(paragraphTexts[i])]])

\* the structurer keeping every piece of the paragraph split
parseArticle_KeepsBlank(h, u) ==
    LET ex == extractArticle(h, u)
    IN  IF ex.tag = "throw" THEN ex
        ELSE LET paragraphTexts == splitParagraphs(ex.value.content, 1, 1)
             IN  Return([title      |-> ex.value.title,
                         source     |-> ex.value.source,
                         paragraphs |->
                             [i \in 1..Len(paragraphTexts) |->
                                 toParagraph(paragraphTexts[i])]])

\* the structurer catching the extractor's error and throwing its own
parseArticle_WrapsError(h, u) ==
    LET ex == extractArticle(h, u)
    IN  IF ex.tag = "throw" THEN Throw("Error", "Failed to parse article")
        ELSE LET paragraphTexts ==
                     SelectSeq(splitParagraphs(ex.value.content, 1, 1), NotBlank)
             IN  Return([title      |-> ex.value.title,
                         source     |-> ex.value.source,
                         paragraphs |->
                             [i \in 1..Len(paragraphTexts) |->
                                 toParagraph(paragraphTexts[i])]])

parseArticle(h, u) ==
    LET ex == extractArticle(h, u)
    IN  IF ex.tag = "throw" THEN ex
        ELSE LET paragraphTexts ==
                     SelectSeq(splitParagraphs(ex.value.content, 1, 1), NotBlank)
             IN  Return([title      |-> ex.value.title,
                         source     |-> ex.value.source,
                         paragraphs |->
                             [i \in 1..Len(paragraphTexts) |->
                                 toParagraph(paragraphTexts[i])]])

(***************************************************************************)
(* validation.ts : isValidUrl                                              *)
(***************************************************************************)
isValidUrl(u) ==
    IF u.str = "" THEN FALSE
    ELSE IF ~u.parses THEN FALSE
    ELSE u.protocol = "https:" \/ u.protocol = "http:"

(***************************************************************************)
(* rate-limiter.ts : RateLimiter over a KV namespace                       *)
(*                                                                         *)
(* The namespace maps a key to a stored string and its expirationTtl.      *)
(* Counters are written with String(n) and read back with parseInt.        *)
(***************************************************************************)
ArticleMaxRequests == 30
ArticleWindowMs == 3600000
TranslateMaxRequests == 100
TranslateWindowMs == 3600000

\* RATE_LIMITS[type]
RATE_LIMITS(type) ==
    IF type = "article"
    THEN [maxRequests |-> ArticleMaxRequests, windowMs |-> ArticleWindowMs]
    ELSE [maxRequests |-> TranslateMaxRequests, windowMs |-> TranslateWindowMs]

Digits == <<"0", "1", "2", "3", "4", "5", "6", "7", "8", "9">>

DigitValue(c) == CHOOSE d \in 0..9 : Digits[d + 1] = c

IsDigit(c) == \E d \in 0..9 : Digits[d + 1] = c

\* String(n) for a non-negative integer
RECURSIVE String(_)
String(n) ==
    IF n < 10 THEN << Digits[n + 1] >>
    ELSE String(n \div 10) \o << Digits[(n % 10) + 1] >>

\* parseInt(s, 10) for a string that starts with a digit: the value of its
\* leading run of digits
RECURSIVE parseIntFrom(_, _, _)
parseIntFrom(s, i, acc) ==
    IF i <= Len(s) /\ IsDigit(s[i])
    THEN parseIntFrom(s, i + 1, acc * 10 + DigitValue(s[i]))
    ELSE acc

parseInt(s) == parseIntFrom(s, 1, 0)

\* `rate:${type}:${ip}`
RateKey(type, ip) == << "rate", type, ip >>

Absent == [present |-> FALSE, value |-> << >>, ttl |-> 0]
Stored(v, ttl) == [present |-> TRUE, value |-> v, ttl |-> ttl]

\* parseInt(await this.kv.get(key) || '0', 10)
readCounter(store, key) ==
    IF store[key].present /\ store[key].value # << >>
    THEN parseInt(store[key].value)
    ELSE parseInt(<<"0">>)

\* the limiter denying only above maxRequests
checkLimit_AboveMax(store, ip, type, maxRequests) ==
    LET current == readCounter(store, RateKey(type, ip))
    IN  IF current > maxRequests
        THEN [allowed |-> FALSE, remaining |-> 0]
        ELSE [allowed |-> TRUE, remaining |-> maxRequests - current]

\* RateLimiter.checkLimit
checkLimit(store, ip, type, maxRequests) ==
    LET current == readCounter(store, RateKey(type, ip))
    IN  IF current >= maxRequests
        THEN [allowed |-> FALSE, remaining |-> 0]
        ELSE [allowed |-> TRUE, remaining |-> maxRequests - current]

\* the expiration given in milliseconds
ttlSeconds_Millis(windowMs) == windowMs

\* Math.floor(this.config.windowMs / 1000)
ttlSeconds(windowMs) == windowMs \div 1000

(***************************************************************************)
(* functions/lib/gemini.ts : GeminiClient                                  *)
(*                                                                         *)
(* The upstream answer is data of the call: fetch rejects, or resolves to  *)
(* a response with its ok flag and a body; the body is JSON or not; the    *)
(* JSON has a candidates[0].content.parts[0].text or reading it fails.     *)
(* A text carries its characters and what JSON.parse makes of it.          *)
(***************************************************************************)
\* JSON values the model's answer can denote
JsonObject(keys, stringKeys) ==
    [kind |-> "object", keys |-> keys, stringKeys |-> stringKeys]
JsonString == [kind |-> "string", keys |-> {}, stringKeys |-> {}]
JsonArray == [kind |-> "array", keys |-> {}, stringKeys |-> {}]

WordMeaningKeys == { "meaning", "pos", "example" }

ModelText(chars, json) == [chars |-> chars, json |-> json]

\* JSON.parse(text)
JSONparse(t) ==
    IF t.json.present THEN Return(t.json.val)
    ELSE Throw("SyntaxError", "Unexpected token")

FetchRejects == [rejects |-> TRUE, ok |-> FALSE, json |-> FALSE,
                 hasText |-> FALSE, text |-> ModelText(<< >>, Missing)]
NotOk == [rejects |-> FALSE, ok |-> FALSE, json |-> FALSE,
          hasText |-> FALSE, text |-> ModelText(<< >>, Missing)]
NotJson == [rejects |-> FALSE, ok |-> TRUE, json |-> FALSE,
            hasText |-> FALSE, text |-> ModelText(<< >>, Missing)]
NoCandidates == [rejects |-> FALSE, ok |-> TRUE, json |-> TRUE,
                 hasText |-> FALSE, text |-> ModelText(<< >>, Missing)]
Candidate(t) == [rejects |-> FALSE, ok |-> TRUE, json |-> TRUE,
                 hasText |-> TRUE, text |-> t]

\* constructor(apiKey)
GeminiClient(apiKey) ==
    IF ~apiKey.present \/ apiKey.val = ""
    THEN Throw("Error", "API key is required")
    ELSE Return([apiKey |-> apiKey.val])

\* the part getWordMeaning and translateSentence share: the fetch, the ok
\* test, response.json() and data.candidates[0].content.parts[0].text
candidateText(upstream) ==
    IF upstream.rejects THEN Throw("TypeError", "fetch failed")
    ELSE IF ~upstream.ok THEN Throw("Error", "Gemini API request failed")
    ELSE IF ~upstream.json THEN Throw("SyntaxError", "Unexpected token")
    ELSE IF ~upstream.hasText
         THEN Throw("TypeError", "Cannot read properties of undefined")
    ELSE Return(upstream.text)

\* getWordMeaning(word, context): return JSON.parse(text)
getWordMeaning(word, context, upstream) ==
    LET t == candidateText(upstream)
    IN  IF t.tag = "throw" THEN t ELSE JSONparse(t.value)

\* translateSentence(sentence): return text.trim()
translateSentence(sentence, upstream) ==
    LET t == candidateText(upstream)
    IN  IF t.tag = "throw" THEN t ELSE Return(trim(t.value.chars))

(***************************************************************************)
(* functions/api/article.ts, translate.ts, word.ts : the three handlers    *)
(*                                                                         *)
(* One invocation runs from await to await: validation, checkLimit's       *)
(* kv.get, the fetch, response.text() and the parse (article) or the call  *)
(* of the Gemini client (translate, word), increment's kv.get, increment's *)
(* kv.put and the response.                                                *)
(***************************************************************************)
NumRequests == 2

Requests == 1..NumRequests

ClientIp == "203.0.113.7"

\* the CF-Connecting-IP header, when the request has one
IpHeaders == { Missing, Some(ClientIp) }

Ips == { ClientIp, "unknown" }

RateTypes == { "article", "translate" }

KvKeys == { RateKey(type, ip) : type \in RateTypes, ip \in Ips }

\* the GEMINI_API_KEY binding of a deployment
Envs == { [GEMINI_API_KEY |-> k] : k \in { Missing, Some("key") } }

\* validation.ts
validateWord(word) == Len(trim(word)) > 0

\* the sentence check without its trim
validateSentence_NoTrim(sentence) == Len(sentence) > 0

validateSentence(sentence) == Len(trim(sentence)) > 0

\* the sentence property of a translate request's body, when it has one
SentenceParams ==
    { Missing, Some(<< >>), Some(<<" ">>), Some(<<"s", ".">>) }

\* the word and context properties of a word request's body
WordParams == { Missing, Some(<<" ">>), Some(<<"c">>) }
ContextParams == { Missing, Some(<<"s", ".">>) }

WellShapedText ==
    ModelText(<<"{", "\"", "m", "e", "a", "n", "i", "n", "g", "\"", ":", "\"", "m", "\"", ",", "\"", "p", "o", "s", "\"", ":", "\"", "p", "\"", ",", "\"", "e", "x", "a", "m", "p", "l", "e", "\"", ":", "\"", "e", "\"", "}">>,
              Some(JsonObject(WordMeaningKeys, WordMeaningKeys)))
NoExampleText ==
    ModelText(<<"{", "\"", "m", "e", "a", "n", "i", "n", "g", "\"", ":", "\"", "m", "\"", ",", "\"", "p", "o", "s", "\"", ":", "\"", "p", "\"", "}">>,
              Some(JsonObject({"meaning", "pos"}, {"meaning", "pos"})))
JsonStringText == ModelText(<<"\"", "m", "\"">>, Some(JsonString))
JsonArrayText == ModelText(<<"[", "]">>, Some(JsonArray))
PlainText == ModelText(<<" ", "m", "\n">>, Missing)

\* what the language model's API answers a getWordMeaning call with
WordUpstreams ==
    { FetchRejects, NotOk, NotJson, NoCandidates }
        \cup { Candidate(t) : t \in { WellShapedText, NoExampleText,
                                       JsonStringText, JsonArrayText,
                                       PlainText } }

\* what it answers a translateSentence call with
TranslateUpstreams ==
    { FetchRejects, NotOk, NoCandidates, Candidate(PlainText) }

\* the url query parameter, when the request has one
UrlParams ==
    { Missing } \cup { Some(u) : u \in { UrlHttps, UrlFtp, UrlInvalid, UrlEmpty } }

ExBody == <<"s", ".", " ", "s", ".", "\n", "\n", "M", "r", ".", " ", "s">>

\* what the fetched url answers with
ApiDocuments ==
    { EmptyHtml, Document(NullArticle),
      Document(Article(Some(<<"T">>), Some(ExBody))) }

NoResponse == [status |-> 0, body |-> [error |-> ""]]

ErrorResponse(status, message) ==
    [status |-> status, body |-> [error |-> message]]

\* JSON.stringify(article): the three properties of a ParsedArticle, each a
\* string or an array, are all written
ArticleJson(a) ==
    [title |-> a.title, source |-> a.source, paragraphs |-> a.paragraphs]

\* JSON.stringify({ translation })
TranslationJson(translation) == [translation |-> translation]

\* endpoint: the handler that runs; params: the url query parameter or the
\* properties of the JSON body the request came with; limitResult: what checkLimit returned,
\* when it ran; called: the fetch of the article or the call of the
\* language model was started; fetches: the HTTP requests the handler has
\* issued; lookup: outcome of the Gemini client
NoParams ==
    [url |-> Missing, sentence |-> Missing, word |-> Missing,
     context |-> Missing]

IdleRequest ==
    [pc |-> "idle", endpoint |-> "", params |-> NoParams,
     articleUrl |-> UrlEmpty, ip |-> "",
     html |-> EmptyHtml, article |-> NotCalled, lookup |-> NotCalled,
     limitResult |-> Missing, called |-> FALSE, fetches |-> 0,
     current |-> 0, resp |-> NoResponse]

ApiIdle ==
    /\ requests = [r \in Requests |-> IdleRequest]
    /\ kv = [k \in KvKeys |-> Absent]
    /\ env = [GEMINI_API_KEY |-> Missing]
    /\ served = [k \in KvKeys |-> 0]

\* the counter a client can have reached before the requests modelled here
InitialCounters(type) ==
    { Absent,
      Stored(String(RATE_LIMITS(type).maxRequests - 1),
             ttlSeconds(RATE_LIMITS(type).windowMs)),
      Stored(String(RATE_LIMITS(type).maxRequests),
             ttlSeconds(RATE_LIMITS(type).windowMs)) }

\* the store is empty, or one client has used one endpoint type; a
\* deployment without the API key has served nothing yet
InitApi ==
    /\ requests = [r \in Requests |-> IdleRequest]
    /\ \E type \in RateTypes :
           kv \in { [k \in KvKeys |-> IF k = RateKey(type, ClientIp)
                                       THEN c ELSE Absent] :
                        c \in InitialCounters(type) }
    /\ env \in Envs
    /\ ~env.GEMINI_API_KEY.present => kv = [k \in KvKeys |-> Absent]
    /\ served = [k \in KvKeys |-> readCounter(kv, k)]
    /\ TextIdle
    /\ ParseIdle
    /\ ClientIdle

\* requests are numbered in their order of arrival
Arrives(r) ==
    /\ requests[r].pc = "idle"
    /\ \A q \in Requests : q < r => requests[q].pc # "idle"

Respond(r, response) ==
    requests' = [requests EXCEPT ![r].pc = "done", ![r].resp = response]

\* lines 10-20: the url parameter is validated and the client identified
ArticleValidate(r) ==
    /\ Arrives(r)
    /\ \E param \in UrlParams, header \in IpHeaders :
           IF ~param.present \/ param.val.str = "" \/ ~isValidUrl(param.val)
           THEN requests' = [requests EXCEPT
                                ![r].pc = "done",
                                ![r].endpoint = "article",
                                ![r].params = [NoParams EXCEPT !.url = param],
                                ![r].resp = ErrorResponse(400, "invalid url")]
           ELSE requests' = [requests EXCEPT
                                ![r].pc = "checkLimit",
                                ![r].endpoint = "article",
                                ![r].params = [NoParams EXCEPT !.url = param],
                                ![r].articleUrl = param.val,
                                ![r].ip = IF header.present THEN header.val
                                          ELSE "unknown"]
    /\ UNCHANGED << kv, env, served, textVars, parseVars, clientVars >>

\* the article handler going on to the fetch whatever checkLimit returned
ArticleCheckLimit_IgnoresDecision(r) ==
    /\ requests[r].pc = "checkLimit"
    /\ requests[r].endpoint = "article"
    /\ LET limitResult ==
               checkLimit(kv, requests[r].ip, "article",
                          RATE_LIMITS("article").maxRequests)
       IN  requests' = [requests EXCEPT
                           ![r].pc = "fetch",
                           ![r].limitResult = Some(limitResult)]
    /\ UNCHANGED << kv, env, served, textVars, parseVars, clientVars >>

\* lines 21-29: limiter.checkLimit(ip, 'article')
ArticleCheckLimit(r) ==
    /\ requests[r].pc = "checkLimit"
    /\ requests[r].endpoint = "article"
    /\ LET limitResult ==
               checkLimit(kv, requests[r].ip, "article",
                          RATE_LIMITS("article").maxRequests)
       IN  IF ~limitResult.allowed
           THEN requests' = [requests EXCEPT
                                ![r].pc = "done",
                                ![r].limitResult = Some(limitResult),
                                ![r].resp = ErrorResponse(429, "limit reached")]
           ELSE requests' = [requests EXCEPT
                                ![r].pc = "fetch",
                                ![r].limitResult = Some(limitResult)]
    /\ UNCHANGED << kv, env, served, textVars, parseVars, clientVars >>

\* line 32: await fetch(articleUrl) resolves or rejects
ArticleFetch(r) ==
    /\ requests[r].pc = "fetch"
    /\ \/ requests' = [requests EXCEPT
                          ![r].pc = "text",
                          ![r].called = TRUE,
                          ![r].fetches = @ + 1]
       \/ requests' = [requests EXCEPT
                          ![r].pc = "done",
                          ![r].called = TRUE,
                          ![r].fetches = @ + 1,
                          ![r].resp = ErrorResponse(502, "article unavailable")]
    /\ UNCHANGED << kv, env, served, textVars, parseVars, clientVars >>

\* the article handler counting the request also when the parse throws
ArticleParse_CountsFailure(r) ==
    /\ requests[r].pc = "text"
    /\ \/ /\ \E h \in ApiDocuments :
                 LET article == parseArticle(h, requests[r].articleUrl)
                 IN  IF article.tag = "throw"
                     THEN /\ requests' = [requests EXCEPT
                                             ![r].pc = "done",
                                             ![r].html = h,
                                             ![r].article = article,
                                             ![r].resp = ErrorResponse(502, "article unavailable")]
                          /\ kv' = [kv EXCEPT
                                       ![RateKey("article", requests[r].ip)] =
                                           Stored(String(readCounter(kv, RateKey("article", requests[r].ip)) + 1),
                                                  ttlSeconds(RATE_LIMITS("article").windowMs))]
                     ELSE /\ requests' = [requests EXCEPT
                                             ![r].pc = "incrementGet",
                                             ![r].html = h,
                                             ![r].article = article]
                          /\ UNCHANGED kv
       \/ /\ Respond(r, ErrorResponse(502, "article unavailable"))
          /\ UNCHANGED kv
    /\ UNCHANGED << env, served, textVars, parseVars, clientVars >>

\* lines 33-34: await response.text() resolves or rejects; parseArticle
ArticleParse(r) ==
    /\ requests[r].pc = "text"
    /\ \/ \E h \in ApiDocuments :
              LET article == parseArticle(h, requests[r].articleUrl)
              IN  IF article.tag = "throw"
                  THEN requests' = [requests EXCEPT
                                       ![r].pc = "done",
                                       ![r].html = h,
                                       ![r].article = article,
                                       ![r].resp = ErrorResponse(502, "article unavailable")]
                  ELSE requests' = [requests EXCEPT
                                       ![r].pc = "incrementGet",
                                       ![r].html = h,
                                       ![r].article = article]
       \/ Respond(r, ErrorResponse(502, "article unavailable"))
    /\ UNCHANGED << kv, env, served, textVars, parseVars, clientVars >>

\* line 36, rate-limiter.ts line 30: increment reads the counter
ArticleIncrementGet(r) ==
    /\ requests[r].pc = "incrementGet"
    /\ requests[r].endpoint = "article"
    /\ \/ requests' = [requests EXCEPT
                          ![r].pc = "incrementPut",
                          ![r].current =
                              readCounter(kv, RateKey("article", requests[r].ip))]
       \/ Respond(r, ErrorResponse(502, "article unavailable"))
    /\ UNCHANGED << kv, env, served, textVars, parseVars, clientVars >>

\* the article handler sending the article although the increment raised
ArticleIncrementPut_AnswersAnyway(r) ==
    /\ requests[r].pc = "incrementPut"
    /\ requests[r].endpoint = "article"
    /\ \/ /\ kv' = [kv EXCEPT ![RateKey("article", requests[r].ip)] =
                        Stored(String(requests[r].current + 1),
                               ttlSeconds(RATE_LIMITS("article").windowMs))]
          /\ served' = [served EXCEPT
                            ![RateKey("article", requests[r].ip)] = @ + 1]
          /\ Respond(r, [status |-> 200,
                         body |-> ArticleJson(requests[r].article.value)])
       \/ /\ Respond(r, [status |-> 200,
                         body |-> ArticleJson(requests[r].article.value)])
          /\ UNCHANGED << kv, served >>
    /\ UNCHANGED << env, textVars, parseVars, clientVars >>

\* the increment keeping the expiration of a key that exists
ArticleIncrementPut_KeepsExpiry(r) ==
    /\ requests[r].pc = "incrementPut"
    /\ requests[r].endpoint = "article"
    /\ \/ /\ kv' = [kv EXCEPT ![RateKey("article", requests[r].ip)] =
                        Stored(String(requests[r].current + 1),
                               IF @.present THEN @.ttl
                               ELSE ttlSeconds(RATE_LIMITS("article").windowMs))]
          /\ served' = [served EXCEPT
                            ![RateKey("article", requests[r].ip)] = @ + 1]
          /\ Respond(r, [status |-> 200,
                         body |-> ArticleJson(requests[r].article.value)])
       \/ /\ Respond(r, ErrorResponse(502, "article unavailable"))
          /\ UNCHANGED << kv, served >>
    /\ UNCHANGED << env, textVars, parseVars, clientVars >>

\* the increment writing back the count it read
ArticleIncrementPut_WritesRead(r) ==
    /\ requests[r].pc = "incrementPut"
    /\ requests[r].endpoint = "article"
    /\ \/ /\ kv' = [kv EXCEPT ![RateKey("article", requests[r].ip)] =
                        Stored(String(requests[r].current),
                               ttlSeconds(RATE_LIMITS("article").windowMs))]
          /\ served' = [served EXCEPT
                            ![RateKey("article", requests[r].ip)] = @ + 1]
          /\ Respond(r, [status |-> 200,
                         body |-> ArticleJson(requests[r].article.value)])
       \/ /\ Respond(r, ErrorResponse(502, "article unavailable"))
          /\ UNCHANGED << kv, served >>
    /\ UNCHANGED << env, textVars, parseVars, clientVars >>

\* rate-limiter.ts lines 31-32 and lines 38-40: increment writes the counter
\* and the article is sent
ArticleIncrementPut(r) ==
    /\ requests[r].pc = "incrementPut"
    /\ requests[r].endpoint = "article"
    /\ \/ /\ kv' = [kv EXCEPT ![RateKey("article", requests[r].ip)] =
                        Stored(String(requests[r].current + 1),
                               ttlSeconds(RATE_LIMITS("article").windowMs))]
          /\ served' = [served EXCEPT
                            ![RateKey("article", requests[r].ip)] = @ + 1]
          /\ Respond(r, [status |-> 200,
                         body |-> ArticleJson(requests[r].article.value)])
       \/ /\ Respond(r, ErrorResponse(502, "article unavailable"))
          /\ UNCHANGED << kv, served >>
    /\ UNCHANGED << env, textVars, parseVars, clientVars >>

(***************************************************************************)
(* functions/api/translate.ts : onRequestPost                              *)
(***************************************************************************)
\* lines 59-68: the sentence is validated and the client identified
TranslateValidate(r) ==
    /\ Arrives(r)
    /\ \E sentence \in SentenceParams, header \in IpHeaders :
           IF ~sentence.present \/ sentence.val = << >>
              \/ ~validateSentence(sentence.val)
           THEN requests' = [requests EXCEPT
                                ![r].pc = "done",
                                ![r].endpoint = "translate",
                                ![r].params = [NoParams EXCEPT !.sentence = sentence],
                                ![r].resp = ErrorResponse(400, "invalid input")]
           ELSE requests' = [requests EXCEPT
                                ![r].pc = "checkLimit",
                                ![r].endpoint = "translate",
                                ![r].params = [NoParams EXCEPT !.sentence = sentence],
                                ![r].ip = IF header.present THEN header.val
                                          ELSE "unknown"]
    /\ UNCHANGED << kv, env, served, textVars, parseVars, clientVars >>

\* lines 69-77: limiter.checkLimit(ip, 'translate')
TranslateCheckLimit(r) ==
    /\ requests[r].pc = "checkLimit"
    /\ requests[r].endpoint = "translate"
    /\ LET limitResult ==
               checkLimit(kv, requests[r].ip, "translate",
                          RATE_LIMITS("translate").maxRequests)
       IN  IF ~limitResult.allowed
           THEN requests' = [requests EXCEPT
                                ![r].pc = "done",
                                ![r].limitResult = Some(limitResult),
                                ![r].resp = ErrorResponse(429, "limit reached")]
           ELSE requests' = [requests EXCEPT
                                ![r].pc = "call",
                                ![r].limitResult = Some(limitResult)]
    /\ UNCHANGED << kv, env, served, textVars, parseVars, clientVars >>

\* lines 80-81: the client is built and translateSentence awaited
TranslateCall(r) ==
    /\ requests[r].pc = "call"
    /\ requests[r].endpoint = "translate"
    /\ LET client == GeminiClient(env.GEMINI_API_KEY)
       IN  IF client.tag = "throw"
           THEN requests' = [requests EXCEPT
                                ![r].pc = "done",
                                ![r].lookup = client,
                                ![r].resp = ErrorResponse(503, "translation unavailable")]
           ELSE \E upstream \in TranslateUpstreams :
                    LET translation == translateSentence(requests[r].params.sentence.val,
                                                         upstream)
                    IN  requests' = [requests EXCEPT
                                        ![r].pc = IF translation.tag = "throw"
                                                  THEN "done"
                                                  ELSE "incrementGet",
                                        ![r].called = TRUE,
                                        ![r].fetches = @ + 1,
                                        ![r].lookup = translation,
                                        ![r].resp =
                                            IF translation.tag = "throw"
                                            THEN ErrorResponse(503, "translation unavailable")
                                            ELSE NoResponse]
    /\ UNCHANGED << kv, env, served, textVars, parseVars, clientVars >>

\* line 83, rate-limiter.ts line 30: increment reads the counter
TranslateIncrementGet(r) ==
    /\ requests[r].pc = "incrementGet"
    /\ requests[r].endpoint = "translate"
    /\ \/ requests' = [requests EXCEPT
                          ![r].pc = "incrementPut",
                          ![r].current =
                              readCounter(kv, RateKey("translate", requests[r].ip))]
       \/ Respond(r, ErrorResponse(503, "translation unavailable"))
    /\ UNCHANGED << kv, env, served, textVars, parseVars, clientVars >>

\* rate-limiter.ts lines 31-32 and lines 85-87: increment writes the
\* counter and the translation is sent
TranslateIncrementPut(r) ==
    /\ requests[r].pc = "incrementPut"
    /\ requests[r].endpoint = "translate"
    /\ \/ /\ kv' = [kv EXCEPT ![RateKey("translate", requests[r].ip)] =
                        Stored(String(requests[r].current + 1),
                               ttlSeconds(RATE_LIMITS("translate").windowMs))]
          /\ served' = [served EXCEPT
                            ![RateKey("translate", requests[r].ip)] = @ + 1]
          /\ Respond(r, [status |-> 200,
                         body |-> TranslationJson(requests[r].lookup.value)])
       \/ /\ Respond(r, ErrorResponse(503, "translation unavailable"))
          /\ UNCHANGED << kv, served >>
    /\ UNCHANGED << env, textVars, parseVars, clientVars >>

(***************************************************************************)
(* functions/api/word.ts : onRequestPost                                   *)
(***************************************************************************)
\* lines 9-19: word and context are validated
WordValidate(r) ==
    /\ Arrives(r)
    /\ \E word \in WordParams, context \in ContextParams :
           IF ~word.present \/ word.val = << >> \/ ~validateWord(word.val)
              \/ ~context.present \/ context.val = << >>
              \/ ~validateSentence(context.val)
           THEN requests' = [requests EXCEPT
                                ![r].pc = "done",
                                ![r].endpoint = "word",
                                ![r].params = [NoParams EXCEPT
                                                  !.word = word,
                                                  !.context = context],
                                ![r].resp = ErrorResponse(400, "invalid input")]
           ELSE requests' = [requests EXCEPT
                                ![r].pc = "call",
                                ![r].endpoint = "word",
                                ![r].params = [NoParams EXCEPT
                                                  !.word = word,
                                                  !.context = context]]
    /\ UNCHANGED << kv, env, served, textVars, parseVars, clientVars >>

\* the word handler asking the language model a second time after a failure
WordCall_Retries(r) ==
    /\ requests[r].pc = "call"
    /\ requests[r].endpoint = "word"
    /\ LET client == GeminiClient(env.GEMINI_API_KEY)
       IN  IF client.tag = "throw"
           THEN requests' = [requests EXCEPT
                                ![r].pc = "done",
                                ![r].lookup = client,
                                ![r].resp = ErrorResponse(503, "translation unavailable")]
           ELSE \E first \in WordUpstreams, upstream \in WordUpstreams :
                    LET failed  == getWordMeaning(requests[r].params.word.val,
                                                  requests[r].params.context.val,
                                                  first).tag = "throw"
                        meaning == getWordMeaning(requests[r].params.word.val,
                                                  requests[r].params.context.val,
                                                  IF failed THEN upstream ELSE first)
                    IN  requests' = [requests EXCEPT
                                        ![r].pc = "done",
                                        ![r].called = TRUE,
                                        ![r].fetches = @ + (IF failed THEN 2 ELSE 1),
                                        ![r].lookup = meaning,
                                        ![r].resp =
                                            IF meaning.tag = "throw"
                                            THEN ErrorResponse(503, "translation unavailable")
                                            ELSE [status |-> 200,
                                                  body |-> meaning.value]]
    /\ UNCHANGED << kv, env, served, textVars, parseVars, clientVars >>

\* lines 21-33: the client is built, getWordMeaning awaited and its value
\* sent
WordCall(r) ==
    /\ requests[r].pc = "call"
    /\ requests[r].endpoint = "word"
    /\ LET client == GeminiClient(env.GEMINI_API_KEY)
       IN  IF client.tag = "throw"
           THEN requests' = [requests EXCEPT
                                ![r].pc = "done",
                                ![r].lookup = client,
                                ![r].resp = ErrorResponse(503, "translation unavailable")]
           ELSE \E upstream \in WordUpstreams :
                    LET meaning == getWordMeaning(requests[r].params.word.val,
                                                  requests[r].params.context.val,
                                                  upstream)
                    IN  requests' = [requests EXCEPT
                                        ![r].pc = "done",
                                        ![r].called = TRUE,
                                        ![r].fetches = @ + 1,
                                        ![r].lookup = meaning,
                                        ![r].resp =
                                            IF meaning.tag = "throw"
                                            THEN ErrorResponse(503, "translation unavailable")
                                            ELSE [status |-> 200,
                                                  body |-> meaning.value]]
    /\ UNCHANGED << kv, env, served, textVars, parseVars, clientVars >>

\* a stored key reaches its expirationTtl
KvExpire(k) ==
    /\ kv[k].present
    /\ kv' = [kv EXCEPT ![k] = Absent]
    /\ served' = [served EXCEPT ![k] = 0]
    /\ UNCHANGED << requests, env, textVars, parseVars, clientVars >>

NextApi ==
    \/ \E r \in Requests :
           \/ ArticleValidate(r)
           \/ ArticleCheckLimit(r)
           \/ ArticleFetch(r)
           \/ ArticleParse(r)
           \/ ArticleIncrementGet(r)
           \/ ArticleIncrementPut(r)
           \/ TranslateValidate(r)
           \/ TranslateCheckLimit(r)
           \/ TranslateCall(r)
           \/ TranslateIncrementGet(r)
           \/ TranslateIncrementPut(r)
           \/ WordValidate(r)
           \/ WordCall(r)
    \/ \E k \in KvKeys : KvExpire(k)

SpecApi == InitApi /\ [][NextApi]_vars

\* what the handlers' scheduling guarantees: a handler that awaits the
\* key-value store goes on once the store has answered; nothing makes the
\* server of an article or the language model's API answer a fetch
FairApi ==
    \A r \in Requests :
        /\ WF_vars(ArticleCheckLimit(r))
        /\ WF_vars(ArticleIncrementGet(r))
        /\ WF_vars(ArticleIncrementPut(r))
        /\ WF_vars(TranslateCheckLimit(r))
        /\ WF_vars(TranslateIncrementGet(r))
        /\ WF_vars(TranslateIncrementPut(r))

SpecApiLive == InitApi /\ [][NextApi]_vars /\ FairApi

(***************************************************************************)
(* Inputs of the text functions: every concatenation of at most           *)
(* MaxTokens tokens, the strings of the test suite, and one text for each  *)
(* listed abbreviation.                                                    *)
(***************************************************************************)
MaxTokens == 4

TextTokens ==
    { <<"M", "r">>, <<"x", "M", "s">>, <<"s">>, <<".">>, <<"!">>, <<",">>,
      <<" ">>, <<"\n">>, DOT }

TokenStrings(tokens, n) ==
    { Concat(ts) : ts \in UNION { [1..k -> tokens] : k \in 0..n } }

ExAbbrev ==
    <<"M", "r", ".", " ", "S", "m", "i", "t", "h", " ", "w", "e", "n", "t",
      " ", "h", "o", "m", "e", ".", " ", "H", "e", " ", "w", "a", "s", " ",
      "t", "i", "r", "e", "d", ".">>
ExAbbrev1 ==
    <<"M", "r", ".", " ", "S", "m", "i", "t", "h", " ", "w", "e", "n", "t",
      " ", "h", "o", "m", "e", ".">>
ExAbbrev2 ==
    <<"H", "e", " ", "w", "a", "s", " ", "t", "i", "r", "e", "d", ".">>
ExBasic ==
    <<"T", "h", "i", "s", " ", "i", "s", " ", "f", "i", "r", "s", "t", ".",
      " ", "T", "h", "i", "s", " ", "i", "s", " ", "s", "e", "c", "o", "n",
      "d", ".">>
ExHello == <<"H", "e", "l", "l", "o", ",", " ", "w", "o", "r", "l", "d", "!">>
ExDont == <<"d", "o", "n", "'", "t">>
ExATMs ==
    <<"T", "h", "e", " ", "A", "T", "M", "s", ".", " ", "N", "e", "x", "t">>

\* the seven abbreviations the specification lists
ListedAbbreviations ==
    { <<"M", "r">>, <<"M", "r", "s">>, <<"M", "s">>, <<"D", "r">>,
      <<"P", "r", "o", "f">>, <<"S", "r">>, <<"J", "r">> }

\* "<abbreviation>. s! s", one for each listed abbreviation
AbbreviationExamples ==
    { a \o <<".", " ", "s", "!", " ", "s">> : a \in ListedAbbreviations }

TextExamples == { ExAbbrev, ExBasic, ExHello, ExDont, ExATMs }

TextInputs ==
    TokenStrings(TextTokens, MaxTokens) \cup TextExamples
        \cup AbbreviationExamples

InitText ==
    /\ text \in TextInputs
    /\ sentences = NotRun
    /\ words = NotRun
    /\ ParseIdle
    /\ ApiIdle
    /\ ClientIdle

SplitIntoSentences ==
    /\ ~sentences.done
    /\ sentences' = Returned(splitIntoSentences(text))
    /\ UNCHANGED << text, words, parseVars, apiVars, clientVars >>

SplitIntoWords ==
    /\ ~words.done
    /\ words' = Returned(splitIntoWords(text))
    /\ UNCHANGED << text, sentences, parseVars, apiVars, clientVars >>

NextText == SplitIntoSentences \/ SplitIntoWords

SpecText == InitText /\ [][NextText]_vars

(***************************************************************************)
(* Inputs of the parser: documents whose text content is a concatenation   *)
(* of at most MaxBodyTokens tokens, with or without a title.               *)
(***************************************************************************)
MaxBodyTokens == 5

BodyTokens == { <<"s">>, <<".">>, <<",">>, <<" ">>, <<"\n">> }

BodyTexts == TokenStrings(BodyTokens, MaxBodyTokens)

Titles == { Missing, Some(<< >>), Some(<<"T">>) }

ParseDocuments ==
    { EmptyHtml, Document(NullArticle) }
        \cup { Document(Article(t, Missing)) : t \in Titles }
        \cup { Document(Article(t, Some(c))) : t \in Titles, c \in BodyTexts }

ParseUrls == { UrlHttps, UrlHttpPort, UrlInvalid }

InitParse ==
    /\ html \in ParseDocuments
    /\ url \in ParseUrls
    /\ extracted = NotCalled
    /\ parsed = NotCalled
    /\ TextIdle
    /\ ApiIdle
    /\ ClientIdle

ExtractArticle ==
    /\ extracted.tag = "none"
    /\ extracted' = extractArticle(html, url)
    /\ UNCHANGED << html, url, parsed, textVars, apiVars, clientVars >>

ParseArticle ==
    /\ parsed.tag = "none"
    /\ parsed' = parseArticle(html, url)
    /\ UNCHANGED << html, url, extracted, textVars, apiVars, clientVars >>

NextParse == ExtractArticle \/ ParseArticle

SpecParse == InitParse /\ [][NextParse]_vars

(***************************************************************************)
(* Vocabulary of the properties, written independently of the operators    *)
(* above.                                                                  *)
(***************************************************************************)
\* the ten characters the specification says the tokenizer removes
ListedPunctuation == {".", ",", "!", "?", ";", ":", "'", "\"", "(", ")"}

SentenceTerminators == {".", "!", "?"}

EndsWith(s, suf) ==
    /\ Len(suf) <= Len(s)
    /\ SubSeq(s, Len(s) - Len(suf) + 1, Len(s)) = suf

EndsWithAbbreviationPeriod(s) ==
    \E a \in ListedAbbreviations : EndsWith(s, a \o <<".">>)

IsSubstring(sub, s) ==
    \E i \in 1..(Len(s) + 1) : StartsWithAt(s, i, sub)

\* a word character: neither white space nor listed punctuation
IsWordChar(c) == c \notin WHITESPACE /\ c \notin ListedPunctuation

\* the whole token that ends at index i of s: the longest run of word
\* characters ending there
TokenEndingAt(s, i) ==
    LET starts == { j \in 1..(i + 1) : \A k \in j..i : IsWordChar(s[k]) }
        first  == CHOOSE j \in starts : \A j2 \in starts : j <= j2
    IN  SubSeq(s, first, i)

\* the period at index i of s is suppressed by the abbreviation rule
IsAbbreviationPeriod(s, i) ==
    s[i] = "." /\ TokenEndingAt(s, i - 1) \in ListedAbbreviations

\* index i of s holds a terminator followed by white space and, further on,
\* by some text
IsSplitPoint(s, i) ==
    /\ i < Len(s)
    /\ s[i] \in SentenceTerminators
    /\ s[i + 1] \in WHITESPACE
    /\ \E j \in (i + 2)..Len(s) : s[j] \notin WHITESPACE

\* some returned sentence other than the last ends at index i of s
BoundaryAt(s, out, i) ==
    \E k \in 1..(Len(out) - 1) : \E j \in 1..i : out[k] = SubSeq(s, j, i)

\* words joined by single spaces
RECURSIVE JoinSpace(_)
JoinSpace(ws) ==
    IF ws = << >> THEN << >>
    ELSE IF Len(ws) = 1 THEN ws[1]
    ELSE ws[1] \o <<" ">> \o JoinSpace(Tail(ws))

\* s with the listed punctuation deleted, every white-space run replaced by
\* one space, and no white space at either end
RECURSIVE SqueezeFrom(_, _)
SqueezeFrom(t, i) ==
    IF i > Len(t) THEN << >>
    ELSE IF t[i] \notin WHITESPACE THEN << t[i] >> \o SqueezeFrom(t, i + 1)
    ELSE IF /\ i > 1
            /\ t[i - 1] \notin WHITESPACE
            /\ \E j \in (i + 1)..Len(t) : t[j] \notin WHITESPACE
         THEN <<" ">> \o SqueezeFrom(t, i + 1)
         ELSE SqueezeFrom(t, i + 1)

StrippedAndSqueezed(s) ==
    SqueezeFrom(SelectSeq(s, LAMBDA c : c \notin ListedPunctuation), 1)

(***************************************************************************)
(* C1: splitIntoSentences never ends a sentence at a period that directly  *)
(* follows Mr, Mrs, Ms, Dr, Prof, Sr or Jr: a returned sentence that ends  *)
(* in "<abbreviation>." is the last one returned (no sentence follows     *)
(* it), and "Mr. Smith went home. He was tired." yields exactly            *)
(* "Mr. Smith went home." and "He was tired.".                             *)
(***************************************************************************)
C1_NoSplitAfterAbbreviation ==
    sentences.done =>
        /\ \A k \in 1..(Len(sentences.value) - 1) :
               ~EndsWithAbbreviationPeriod(sentences.value[k])
        /\ text = ExAbbrev => sentences.value = << ExAbbrev1, ExAbbrev2 >>

C1_Witness ==
    /\ sentences.done
    /\ Len(sentences.value) >= 2
    /\ \E i \in 2..(Len(sentences.value[1]) - 1) :
           /\ IsAbbreviationPeriod(sentences.value[1], i)
           /\ sentences.value[1][i + 1] \in WHITESPACE
    /\ IsSubstring(sentences.value[1], text)

(***************************************************************************)
(* C2: every '.', '!' or '?' followed by white space (and then by text) is *)
(* a sentence boundary, unless it is a period whose preceding whole token  *)
(* is one of the seven abbreviations.                                      *)
(***************************************************************************)
C2_EveryOtherTerminatorSplits ==
    sentences.done =>
        \A i \in 1..Len(text) :
            (IsSplitPoint(text, i) /\ ~IsAbbreviationPeriod(text, i))
                => BoundaryAt(text, sentences.value, i)

(***************************************************************************)
(* C3: each returned sentence is a contiguous substring of the input.      *)
(***************************************************************************)
C3_SentencesAreSubstrings ==
    sentences.done =>
        \A k \in 1..Len(sentences.value) :
            IsSubstring(sentences.value[k], text)

(***************************************************************************)
(* C4: splitIntoWords returns the input with the ten punctuation           *)
(* characters deleted, cut at white-space runs, empty pieces dropped: no   *)
(* word is empty or holds white space or one of those characters, and the  *)
(* words joined by single spaces are the stripped, squeezed input;         *)
(* "don't" gives [dont] and "Hello, world!" gives [Hello, world].          *)
(***************************************************************************)
C4_WordsAreStrippedPieces ==
    words.done =>
        /\ \A k \in 1..Len(words.value) :
               /\ words.value[k] # << >>
               /\ \A n \in 1..Len(words.value[k]) :
                      /\ words.value[k][n] \notin WHITESPACE
                      /\ words.value[k][n] \notin ListedPunctuation
        /\ JoinSpace(words.value) = StrippedAndSqueezed(text)
        /\ text = ExDont => words.value = << <<"d", "o", "n", "t">> >>
        /\ text = ExHello =>
               words.value = << <<"H", "e", "l", "l", "o">>,
                                <<"w", "o", "r", "l", "d">> >>

C4_Witness ==
    /\ words.done
    /\ Len(words.value) >= 2
    /\ \E i \in 1..Len(text) : text[i] \in ListedPunctuation
    /\ Len(JoinSpace(words.value)) < Len(text)

(***************************************************************************)
(* Paragraph blocks, read off the lines of the text: the text is cut into  *)
(* lines at every newline; separator lines delimit blocks, and a block is  *)
(* its lines joined by newlines.  With wsBlank a line of white space only  *)
(* is a separator too, otherwise only an empty line is.                    *)
(***************************************************************************)
RECURSIVE LinesFrom(_, _, _)
LinesFrom(s, p, q) ==
    IF q > Len(s) THEN << SubSeq(s, p, Len(s)) >>
    ELSE IF s[q] = "\n"
         THEN << SubSeq(s, p, q - 1) >> \o LinesFrom(s, q + 1, q + 1)
         ELSE LinesFrom(s, p, q + 1)

IsSeparatorLine(line, wsBlank) ==
    IF wsBlank THEN \A n \in 1..Len(line) : line[n] \in WHITESPACE
    ELSE line = << >>

RECURSIVE BlocksFrom(_, _, _, _, _)
BlocksFrom(lines, i, cur, open, wsBlank) ==
    LET closed == IF open THEN << cur >> ELSE << >>
    IN  IF i > Len(lines) THEN closed
        ELSE IF IsSeparatorLine(lines[i], wsBlank)
             THEN closed \o BlocksFrom(lines, i + 1, << >>, FALSE, wsBlank)
             ELSE BlocksFrom(lines, i + 1,
                             IF open THEN cur \o <<"\n">> \o lines[i]
                             ELSE lines[i],
                             TRUE, wsBlank)

HasText(block) == \E n \in 1..Len(block) : block[n] \notin WHITESPACE

\* the blocks of s that hold some text, in source order
TextBlocks(s, wsBlank) ==
    SelectSeq(BlocksFrom(LinesFrom(s, 1, 1), 1, << >>, FALSE, wsBlank), HasText)

\* the sentence texts of each paragraph of an article
SentenceTexts(article) ==
    [i \in 1..Len(article.paragraphs) |->
        [j \in 1..Len(article.paragraphs[i].sentences) |->
            article.paragraphs[i].sentences[j].text]]

\* the body text of the document handed to the parser
BodyOf(h) == OrEmpty(h.article.textContent)

(***************************************************************************)
(* C5: for every sentence S of every paragraph of a ParsedArticle, S.words *)
(* joined by single spaces is S.text with the punctuation characters       *)
(* removed, white-space runs collapsed to one space, and trimmed.          *)
(***************************************************************************)
C5_WordsRejoinToStrippedText ==
    parsed.tag = "return" =>
        \A i \in 1..Len(parsed.value.paragraphs) :
            \A j \in 1..Len(parsed.value.paragraphs[i].sentences) :
                LET S == parsed.value.paragraphs[i].sentences[j]
                IN  JoinSpace(S.words) = StrippedAndSqueezed(S.text)

C5_Witness ==
    /\ parsed.tag = "return"
    /\ \E i \in 1..Len(parsed.value.paragraphs) :
           \E j \in 1..Len(parsed.value.paragraphs[i].sentences) :
               LET S == parsed.value.paragraphs[i].sentences[j]
               IN  /\ Len(S.words) >= 2
                   /\ Len(JoinSpace(S.words)) + 2 <= Len(S.text)

(***************************************************************************)
(* C6: parseArticle makes one paragraph of each block of the body text     *)
(* that blank lines delimit, a blank line being a line that is empty or    *)
(* holds only white space; blocks keep their order and a block of white    *)
(* space only gives no paragraph.                                          *)
(***************************************************************************)
C6_ParagraphsAtBlankLines ==
    parsed.tag = "return" =>
        LET blocks == TextBlocks(BodyOf(html), TRUE)
        IN  SentenceTexts(parsed.value) =
                [i \in 1..Len(blocks) |-> splitIntoSentences(blocks[i])]

(***************************************************************************)
(* C7: the i-th paragraph of the result holds exactly the sentences that   *)
(* splitIntoSentences returns for the i-th non-blank paragraph text (the   *)
(* blocks that empty lines delimit), each paired with splitIntoWords of    *)
(* its text; nothing is reordered, deduplicated or filtered.               *)
(***************************************************************************)
C7_ParagraphsMirrorSource ==
    parsed.tag = "return" =>
        LET blocks == TextBlocks(BodyOf(html), FALSE)
        IN  parsed.value.paragraphs =
                [i \in 1..Len(blocks) |->
                    [sentences |->
                        [j \in 1..Len(splitIntoSentences(blocks[i])) |->
                            [text  |-> splitIntoSentences(blocks[i])[j],
                             words |->
                                 splitIntoWords(splitIntoSentences(blocks[i])[j])]]]]

\* two equal paragraphs, or two equal sentences in one paragraph, both kept
C7_Witness ==
    /\ parsed.tag = "return"
    /\ \/ /\ Len(parsed.value.paragraphs) = 2
          /\ parsed.value.paragraphs[1] = parsed.value.paragraphs[2]
       \/ /\ Len(parsed.value.paragraphs) = 1
          /\ Len(parsed.value.paragraphs[1].sentences) = 2
          /\ parsed.value.paragraphs[1].sentences[1]
                 = parsed.value.paragraphs[1].sentences[2]

(***************************************************************************)
(* C8: extractArticle throws, and returns nothing, whenever html is the    *)
(* empty string or Readability finds no article; the empty-html check      *)
(* comes before the url is examined, so an empty html gives the            *)
(* 'HTML content is required' error whatever the url is.                   *)
(***************************************************************************)
C8_ThrowsOnEmptyOrUnreadable ==
    extracted.tag # "none" =>
        /\ (html.empty \/ html.article.isNull) => extracted.tag = "throw"
        /\ html.empty =>
               extracted = Throw("Error", "HTML content is required")

C8_Witness ==
    /\ extracted.tag = "throw"
    /\ html.empty
    /\ ~url.parses

(***************************************************************************)
(* C9: when Readability returns an article whose text content is missing   *)
(* or empty, extractArticle throws instead of returning a value whose body *)
(* text was defaulted to the empty string.                                 *)
(***************************************************************************)
C9_NoSilentDefault ==
    (extracted.tag # "none" /\ ~html.empty /\ ~html.article.isNull) =>
        ((\/ ~html.article.textContent.present
          \/ html.article.textContent.val = << >>) => extracted.tag = "throw")

(***************************************************************************)
(* C10: parseArticle returns a complete ParsedArticle (title, source and   *)
(* paragraphs) exactly when extractArticle returns, and otherwise throws   *)
(* the very error extractArticle threw; the article endpoint answers       *)
(* either 200 with that complete article or an error body that holds       *)
(* nothing of the article.                                                 *)
(***************************************************************************)
C10_CompleteArticleOrSameError ==
    \A r \in Requests :
        LET q  == requests[r]
            ex == extractArticle(q.html, q.articleUrl)
        IN  /\ q.article.tag # "none" =>
                   \/ /\ ex.tag = "return"
                      /\ q.article.tag = "return"
                      /\ DOMAIN q.article.value = {"title", "source", "paragraphs"}
                      /\ q.article.value.title = ex.value.title
                      /\ q.article.value.source = ex.value.source
                   \/ /\ ex.tag = "throw"
                      /\ q.article = ex
            /\ (q.endpoint = "article" /\ q.resp.status # 0) =>
                   \/ /\ q.resp.status = 200
                      /\ q.article.tag = "return"
                      /\ q.resp.body = q.article.value
                   \/ /\ q.resp.status # 200
                      /\ DOMAIN q.resp.body = {"error"}

C10_Witness ==
    \E r1, r2 \in Requests :
        /\ requests[r1].endpoint = "article"
        /\ requests[r1].resp.status = 200
        /\ Len(requests[r1].resp.body.paragraphs) = 2
        /\ requests[r2].resp.status = 502
        /\ requests[r2].article = Throw("Error", "Failed to parse article")

(***************************************************************************)
(* C11: when extraction succeeds and the body text is empty or holds only  *)
(* white space, parseArticle returns an article whose paragraphs list is   *)
(* empty; it does not throw.                                               *)
(***************************************************************************)
IsBlankText(s) == \A n \in 1..Len(s) : s[n] \in WHITESPACE

ExtractionSucceeds(h, u) == ~h.empty /\ ~h.article.isNull /\ u.parses

C11_BlankBodyGivesNoParagraphs ==
    (/\ parsed.tag # "none"
     /\ ExtractionSucceeds(html, url)
     /\ IsBlankText(BodyOf(html))) =>
        /\ parsed.tag = "return"
        /\ parsed.value.paragraphs = << >>

C11_Witness ==
    /\ parsed.tag = "return"
    /\ parsed.value.paragraphs = << >>
    /\ html.article.textContent.present
    /\ Len(BodyOf(html)) >= 4
    /\ \E n \in 1..(Len(BodyOf(html)) - 1) :
           BodyOf(html)[n] = "\n" /\ BodyOf(html)[n + 1] = "\n"

(***************************************************************************)
(* C12: splitIntoSentences and splitIntoWords return for every string (no  *)
(* call ends otherwise), and for the empty string and for a string of      *)
(* white space only each returns the empty sequence.                       *)
(***************************************************************************)
C12_BlankTextGivesEmptySequence ==
    /\ sentences.done => (IsBlankText(text) => sentences.value = << >>)
    /\ words.done => (IsBlankText(text) => words.value = << >>)

C12_Witness ==
    /\ sentences.done
    /\ words.done
    /\ Len(text) >= 2
    /\ IsBlankText(text)
    /\ sentences.value = << >>
    /\ words.value = << >>

(***************************************************************************)
(* C13: splitIntoSentences returns its sentences in source order, each     *)
(* non-empty and free of white space at both ends; every sentence but the  *)
(* last ends in '.', '!' or '?'; and nothing of the text is lost: the      *)
(* sentences, white space aside, spell the text, white space aside, so the *)
(* text after the last boundary is the last sentence.                      *)
(***************************************************************************)
WithoutSpace(s) == SelectSeq(s, LAMBDA c : c \notin WHITESPACE)

C13_SentencesCoverTextInOrder ==
    sentences.done =>
        /\ \A k \in 1..Len(sentences.value) :
               /\ sentences.value[k] # << >>
               /\ Head(sentences.value[k]) \notin WHITESPACE
               /\ sentences.value[k][Len(sentences.value[k])] \notin WHITESPACE
        /\ \A k \in 1..(Len(sentences.value) - 1) :
               sentences.value[k][Len(sentences.value[k])] \in SentenceTerminators
        /\ WithoutSpace(Concat(sentences.value)) = WithoutSpace(text)
        /\ ~IsBlankText(text) =>
               /\ sentences.value # << >>
               /\ EndsWith(trim(text), sentences.value[Len(sentences.value)])

(***************************************************************************)
(* C14: when extraction succeeds, the source of the result is the host     *)
(* component of the parsed url.                                            *)
(***************************************************************************)
C14_SourceIsHost ==
    extracted.tag = "return" => extracted.value.source = url.host

(***************************************************************************)
(* C14, amended: when extraction succeeds, the source of the result is the *)
(* hostname component of the parsed url, the host without its port.        *)
(***************************************************************************)
C14_SourceIsHostname ==
    extracted.tag = "return" => extracted.value.source = url.hostname

C14_Witness ==
    /\ extracted.tag = "return"
    /\ url.port # ""
    /\ extracted.value.source = "news.example.org"

(***************************************************************************)
(* C15: parseArticle has no state shared between requests: however the     *)
(* requests interleave, two requests that parsed the same html for the     *)
(* same url hold deep-equal outcomes (equal articles, or the same error),  *)
(* and a step of one request never changes the outcome another holds.      *)
(***************************************************************************)
SameInputSameOutcome ==
    \A r1, r2 \in Requests :
        (/\ requests[r1].article.tag # "none"
         /\ requests[r2].article.tag # "none"
         /\ requests[r1].html = requests[r2].html
         /\ requests[r1].articleUrl = requests[r2].articleUrl) =>
            requests[r1].article = requests[r2].article

MaxRequestsOf(type) ==
    IF type = "article" THEN 30 ELSE 100

C16_ServedWithinLimit ==
    \A type \in RateTypes, ip \in Ips :
        served[RateKey(type, ip)] <= MaxRequestsOf(type)

(***************************************************************************)
(* C17: in every endpoint (article, word, translate) the fetch of the      *)
(* article or the call of the language model starts only in a request      *)
(* that obtained an 'allowed' rate-limit decision earlier.                 *)
(***************************************************************************)
StartsCall(r) == ~requests[r].called /\ requests'[r].called

HoldsAllowedDecision(r) ==
    /\ requests[r].limitResult.present
    /\ requests[r].limitResult.val.allowed

C17_DecisionBeforeEveryCall ==
    [][\A r \in Requests : StartsCall(r) => HoldsAllowedDecision(r)]_vars

(***************************************************************************)
(* C17, amended: in the two rate-limited endpoints, article and translate, *)
(* the fetch of the article or the call of the language model starts only  *)
(* in a request that obtained an 'allowed' decision earlier; the word      *)
(* endpoint calls the language model without any rate-limit decision.      *)
(***************************************************************************)
C17_DecisionBeforeRateLimitedCall ==
    [][\A r \in Requests :
           StartsCall(r) =>
               IF requests[r].endpoint = "word"
               THEN ~requests[r].limitResult.present
               ELSE HoldsAllowedDecision(r)]_vars

C17_Witness ==
    \E r1, r2 \in Requests :
        /\ requests[r1].endpoint \in { "article", "translate" }
        /\ requests[r1].called
        /\ requests[r1].limitResult = Some([allowed |-> TRUE, remaining |-> 1])
        /\ requests[r2].endpoint \in { "article", "translate" }
        /\ requests[r2].resp.status = 429
        /\ ~requests[r2].called

(***************************************************************************)
(* C18: in the article and translate endpoints the usage counter is        *)
(* written only by a request whose parse or language-model call succeeded, *)
(* in the step that answers it 200; a step that answers a request 400,     *)
(* 429, 502 or 503 leaves every counter as it was.                         *)
(***************************************************************************)
Answers(r) == requests[r].pc # "done" /\ requests'[r].pc = "done"

CallSucceeded(r) ==
    \/ requests[r].endpoint = "article" /\ requests[r].article.tag = "return"
    \/ requests[r].endpoint = "translate" /\ requests[r].lookup.tag = "return"

C18_CounterWrittenOnlyAfterSuccess ==
    [][/\ \A k \in KvKeys :
              (kv'[k] # kv[k] /\ kv'[k].present) =>
                  \E r \in Requests :
                      /\ Answers(r)
                      /\ requests'[r].resp.status = 200
                      /\ CallSucceeded(r)
                      /\ k = RateKey(requests[r].endpoint, requests[r].ip)
       /\ \A r \in Requests :
              (Answers(r) /\ requests'[r].resp.status \in {400, 429, 502, 503}) =>
                  kv' = kv]_vars

C18_Witness ==
    \E r1, r2 \in Requests :
        /\ requests[r1].endpoint = requests[r2].endpoint
        /\ requests[r1].endpoint \in { "article", "translate" }
        /\ requests[r1].ip = requests[r2].ip
        /\ requests[r1].resp.status = 200
        /\ requests[r2].resp.status \in { 502, 503 }
        /\ requests[r2].called
        /\ ~CallSucceeded(r2)
        /\ kv[RateKey(requests[r1].endpoint, requests[r1].ip)].value = <<"1">>

(***************************************************************************)
(* C19: checkLimit for (ip, type) decides on the counter stored under      *)
(* rate:<type>:<ip>, a missing key counting as 0: allowed = false with     *)
(* remaining = 0 exactly when the counter is >= maxRequests, otherwise     *)
(* allowed = true with remaining = maxRequests - counter; and the step     *)
(* writes nothing to the store.                                            *)
(***************************************************************************)
ChecksLimit(r) ==
    requests[r].pc = "checkLimit" /\ requests'[r].pc # "checkLimit"

\* the number whose decimal digits are stored under the key, 0 without one
CounterOf(type, ip) ==
    IF ~kv[<<"rate", type, ip>>].present THEN 0
    ELSE CHOOSE n \in 0..(MaxRequestsOf(type) + NumRequests) :
             String(n) = kv[<<"rate", type, ip>>].value

ExpectedDecision(type, ip) ==
    IF CounterOf(type, ip) >= MaxRequestsOf(type)
    THEN [allowed |-> FALSE, remaining |-> 0]
    ELSE [allowed |-> TRUE,
          remaining |-> MaxRequestsOf(type) - CounterOf(type, ip)]

C19_CheckLimitDecidesOnCounter ==
    [][\A r \in Requests :
           ChecksLimit(r) =>
               /\ kv' = kv
               /\ requests'[r].limitResult =
                      Some(ExpectedDecision(requests[r].endpoint, requests[r].ip))
               /\ requests'[r].limitResult.val.allowed
                      <=> requests'[r].pc # "done"]_vars

C19_Witness ==
    \E r1, r2 \in Requests :
        /\ requests[r1].endpoint = requests[r2].endpoint
        /\ requests[r1].ip = requests[r2].ip
        /\ requests[r1].limitResult = Some([allowed |-> TRUE, remaining |-> 1])
        /\ requests[r2].limitResult = Some([allowed |-> FALSE, remaining |-> 0])
        /\ requests[r2].resp.status = 429

(***************************************************************************)
(* C20: getWordMeaning never returns a value that lacks one of the three   *)
(* string fields meaning, pos and example: when the upstream answer is not *)
(* ok or its text is not JSON of that shape, the call ends in an error.    *)
(***************************************************************************)
HasWordMeaningShape(v) ==
    /\ v.kind = "object"
    /\ {"meaning", "pos", "example"} \subseteq v.keys
    /\ {"meaning", "pos", "example"} \subseteq v.stringKeys

C20_ReturnsOnlyWordMeanings ==
    \A r \in Requests :
        (requests[r].endpoint = "word" /\ requests[r].lookup.tag = "return") =>
            HasWordMeaningShape(requests[r].lookup.value)

(***************************************************************************)
(* C21: a call of getWordMeaning or translateSentence issues exactly one   *)
(* upstream HTTP request, whether it returns or throws, and none is issued *)
(* at any other step of the word and translate handlers; when the call     *)
(* throws, or the client cannot be built for want of an API key, the       *)
(* handler answers 503 with a body that holds only an error.               *)
(***************************************************************************)
CallsClient(r) == requests[r].pc = "call" /\ requests'[r].pc # "call"

ClientCanBeBuilt == env.GEMINI_API_KEY.present /\ env.GEMINI_API_KEY.val # ""

C21_OneUpstreamRequestAnd503 ==
    [][\A r \in Requests :
           /\ CallsClient(r) =>
                  /\ requests'[r].lookup.tag \in { "return", "throw" }
                  /\ requests'[r].fetches =
                         requests[r].fetches + (IF ClientCanBeBuilt THEN 1 ELSE 0)
                  /\ ~ClientCanBeBuilt => requests'[r].lookup.tag = "throw"
                  /\ requests'[r].lookup.tag = "throw" =>
                         /\ requests'[r].pc = "done"
                         /\ requests'[r].resp.status = 503
                         /\ DOMAIN requests'[r].resp.body = { "error" }
           /\ (requests[r].endpoint \in { "word", "translate" } /\ ~CallsClient(r)) =>
                  requests'[r].fetches = requests[r].fetches]_vars

C21_Witness ==
    \E r1, r2 \in Requests :
        /\ requests[r1].endpoint = "word"
        /\ requests[r1].lookup = Throw("Error", "Gemini API request failed")
        /\ requests[r1].fetches = 1
        /\ requests[r1].resp.status = 503
        /\ requests[r2].endpoint = "translate"
        /\ requests[r2].lookup = Throw("TypeError", "fetch failed")
        /\ requests[r2].fetches = 1
        /\ requests[r2].resp.status = 503

(***************************************************************************)
(* C22: every request that an endpoint has begun to handle is eventually   *)
(* answered, also when the server of the article or the language model     *)
(* never answers the fetch.                                                *)
(***************************************************************************)
C22_EveryRequestIsAnswered ==
    \A r \in Requests :
        (requests[r].pc # "idle") ~> (requests[r].pc = "done")

(***************************************************************************)
(* C23: validation is the first thing each handler does: a request is      *)
(* answered 400 exactly when its url parameter is missing or no absolute   *)
(* http/https url (article), its sentence is missing, empty or white space *)
(* only (translate), or its word or its context is missing, empty or white *)
(* space only (word); and a request so answered has read no counter,       *)
(* fetched no article and called no language model.                        *)
(***************************************************************************)
Receives(r) == requests[r].pc = "idle" /\ requests'[r].pc # "idle"

IsBlankParam(p) == ~p.present \/ IsBlankText(p.val)

IsHttpUrlParam(p) ==
    /\ p.present
    /\ p.val.parses
    /\ p.val.protocol \in { "http:", "https:" }

HasInvalidInput(q) ==
    \/ q.endpoint = "article" /\ ~IsHttpUrlParam(q.params.url)
    \/ q.endpoint = "translate" /\ IsBlankParam(q.params.sentence)
    \/ /\ q.endpoint = "word"
       /\ IsBlankParam(q.params.word) \/ IsBlankParam(q.params.context)

ReadsCounter(r) ==
    requests[r].pc = "incrementGet" /\ requests'[r].pc = "incrementPut"

WritesCounter(r) ==
    requests[r].pc = "incrementPut" /\ requests'[r].resp.status = 200

C29_IncrementWritesReadPlusOne ==
    [][/\ String(parseInt(<<"5">>) + 1) = <<"6">>
       /\ \A r \in Requests :
              /\ ReadsCounter(r) =>
                     /\ requests'[r].current =
                            CounterOf(requests[r].endpoint, requests[r].ip)
                     /\ kv' = kv
              /\ WritesCounter(r) =>
                     \A type \in RateTypes, ip \in Ips :
                         IF type = requests[r].endpoint /\ ip = requests[r].ip
                         THEN /\ kv'[<<"rate", type, ip>>].present
                              /\ kv'[<<"rate", type, ip>>].ttl = 3600
                              /\ CounterOf(type, ip)' = requests[r].current + 1
                         ELSE kv'[<<"rate", type, ip>>] = kv[<<"rate", type, ip>>]]_vars

C29_Witness ==
    \E r1, r2 \in Requests :
        /\ requests[r1].endpoint = "article"
        /\ requests[r1].ip = ClientIp
        /\ requests[r1].current = 29
        /\ requests[r1].resp.status = 200
        /\ kv[<<"rate", "article", ClientIp>>] =
               [present |-> TRUE, value |-> <<"3", "0">>, ttl |-> 3600]
        /\ requests[r2].endpoint = "translate"
        /\ requests[r2].ip = "unknown"
        /\ requests[r2].current = 0
        /\ requests[r2].resp.status = 200
        /\ kv[<<"rate", "translate", "unknown">>] =
               [present |-> TRUE, value |-> <<"1">>, ttl |-> 3600]

(***************************************************************************)
(* C30: for a valid url the article handler answers 429, without any       *)
(* fetch, when the limit decision is not 'allowed'; it goes through fetch, *)
(* parse and increment in that order, answers 502 as soon as one of them   *)
(* raises, and answers 200 with the parsed article only at the end, when   *)
(* the fetch was made, the parse returned and the counter was written.     *)
(***************************************************************************)
ArticleOrder ==
    [checkLimit |-> "fetch", fetch |-> "text", text |-> "incrementGet",
     incrementGet |-> "incrementPut", incrementPut |-> "done"]

C30_ArticleAnswers ==
    [][\A r \in Requests :
           (/\ requests[r].endpoint = "article"
            /\ requests[r].pc \in DOMAIN ArticleOrder
            /\ requests'[r] # requests[r]) =>
               LET q    == requests[r]
                   next == requests'[r]
               IN  /\ next.pc \in { ArticleOrder[q.pc], "done" }
                   /\ q.pc = "checkLimit" =>
                          IF ExpectedDecision("article", q.ip).allowed
                          THEN next.pc = "fetch" /\ next.fetches = 0
                          ELSE /\ next.resp.status = 429
                               /\ next.fetches = 0
                               /\ next.article.tag = "none"
                   /\ (q.pc # "checkLimit" /\ next.pc = "done") =>
                          next.resp.status \in { 200, 502 }
                   /\ next.article.tag = "throw" => next.resp.status = 502
                   /\ next.resp.status = 200 =>
                          /\ q.pc = "incrementPut"
                          /\ q.fetches = 1
                          /\ q.article.tag = "return"
                          /\ next.resp.body = q.article.value
                          /\ kv'[<<"rate", "article", q.ip>>].present
                          /\ CounterOf("article", q.ip)' = q.current + 1
                   /\ next.resp.status = 502 =>
                          /\ kv' = kv
                          /\ DOMAIN next.resp.body = { "error" }]_vars

C30_Witness ==
    \E r1, r2 \in Requests :
        /\ requests[r1].endpoint = "article"
        /\ requests[r1].resp.status = 200
        /\ requests[r1].fetches = 1
        /\ requests[r2].endpoint = "article"
        /\ requests[r2].ip = requests[r1].ip
        /\ requests[r2].resp.status = 429
        /\ requests[r2].fetches = 0

(***************************************************************************)
(* CacheService: two Maps of timestamped entries, read through a TTL       *)
(***************************************************************************)
MaxCacheOps == 2
MaxDays == 2
MaxMillis == 1

\* the instants at which the cache is called: whole TTLs after the start,
\* and the milliseconds that follow them
Instants ==
    { k * CACHE_TTL + j : k \in 0..MaxDays, j \in 0..MaxMillis }

\* Date.now() - timestamp > CACHE_TTL
isExpired(timestamp, clock) == clock - timestamp > CACHE_TTL

\* Map.get, then: entry && !isExpired(entry.timestamp) ? entry.data : null
readEntry(entry, clock) ==
    IF entry.present /\ ~isExpired(entry.val.timestamp, clock)
    THEN Some(entry.val.data)
    ELSE Missing

CacheService_getWordMeaning(cache, clock, word, context) ==
    readEntry(cache[WordKey(word, context)], clock)

CacheService_setWordMeaning(cache, clock, word, context, meaning) ==
    [cache EXCEPT ![WordKey(word, context)] =
                      Some(CacheEntry(meaning, clock))]

CacheService_getTranslation(cache, clock, sentence) ==
    readEntry(cache[sentence], clock)

CacheService_setTranslation(cache, clock, sentence, translation) ==
    [cache EXCEPT ![sentence] = Some(CacheEntry(translation, clock))]

CacheGetWordMeaning(word, context) ==
    /\ returned' =
           [op |-> "getWordMeaning", args |-> << word, context >>,
            value |-> CacheService_getWordMeaning(wordCache, now, word,
                                                  context)]
    /\ UNCHANGED << now, wordCache, translationCache, wordSets,
                    translationSets, cacheOps, textVars, parseVars, apiVars,
                    appVars, panelVars, touchVars >>

CacheSetWordMeaning(word, context, meaning) ==
    /\ cacheOps < MaxCacheOps
    /\ wordCache' = CacheService_setWordMeaning(wordCache, now, word, context,
                                                meaning)
    /\ wordSets' = [wordSets EXCEPT ![<< word, context >>] =
                                        Some(CacheEntry(meaning, now))]
    /\ cacheOps' = cacheOps + 1
    /\ returned' = Void
    /\ UNCHANGED << now, translationCache, translationSets, textVars,
                    parseVars, apiVars, appVars, panelVars,
                    touchVars >>

CacheGetTranslation(sentence) ==
    /\ returned' =
           [op |-> "getTranslation", args |-> << sentence >>,
            value |-> CacheService_getTranslation(translationCache, now,
                                                  sentence)]
    /\ UNCHANGED << now, wordCache, translationCache, wordSets,
                    translationSets, cacheOps, textVars, parseVars, apiVars,
                    appVars, panelVars, touchVars >>

CacheSetTranslation(sentence, translation) ==
    /\ cacheOps < MaxCacheOps
    /\ translationCache' = CacheService_setTranslation(translationCache, now,
                                                       sentence, translation)
    /\ translationSets' = [translationSets EXCEPT ![sentence] =
                               Some(CacheEntry(translation, now))]
    /\ cacheOps' = cacheOps + 1
    /\ returned' = Void
    /\ UNCHANGED << now, wordCache, wordSets, textVars, parseVars, apiVars,
                    appVars, panelVars, touchVars >>

\* clear() empties both Maps
CacheClear ==
    /\ cacheOps < MaxCacheOps
    /\ wordCache' = EmptyMap(WordKeys)
    /\ translationCache' = EmptyMap(CacheSentences)
    /\ wordSets' = EmptyMap(WordPairs)
    /\ translationSets' = EmptyMap(CacheSentences)
    /\ cacheOps' = cacheOps + 1
    /\ returned' = Void
    /\ UNCHANGED << now, textVars, parseVars, apiVars, appVars, panelVars,
                    touchVars >>

\* time passes between two calls
ClockTick(t) ==
    /\ t > now
    /\ now' = t
    /\ returned' = Void
    /\ UNCHANGED << wordCache, translationCache, wordSets, translationSets,
                    cacheOps, textVars, parseVars, apiVars, appVars, panelVars,
                    touchVars >>

InitCache ==
    /\ AppIdle
    /\ CacheIdle
    /\ PanelIdle
    /\ TouchIdle
    /\ TextIdle
    /\ ParseIdle
    /\ ApiIdle

NextCache ==
    \/ \E p \in WordPairs : CacheGetWordMeaning(p[1], p[2])
    \/ \E p \in WordPairs, m \in Meanings :
           CacheSetWordMeaning(p[1], p[2], m)
    \/ \E s \in CacheSentences : CacheGetTranslation(s)
    \/ \E s \in CacheSentences, t \in Translations :
           CacheSetTranslation(s, t)
    \/ CacheClear
    \/ \E t \in Instants : ClockTick(t)

SpecCache == InitCache /\ [][NextCache]_vars

\* what a get has to return: the value of the latest set for its
\* arguments while no more than 24 hours have passed since, else null
Remembered(set, clock) ==
    IF set.present /\ clock - set.val.timestamp <= 24 * 60 * 60 * 1000
    THEN Some(set.val.data)
    ELSE Missing

\* C24: getWordMeaning(word, context) and getTranslation(sentence) return
\* the value of the most recent set for their arguments while no more than
\* 24 hours have elapsed since that set, and null when there was no set,
\* after clear(), or once more than 24 hours have elapsed.
C24_GetReturnsLatestSetWithinTtl ==
    [][ /\ returned'.op = "getWordMeaning" =>
            returned'.value =
                Remembered(wordSets[<< returned'.args[1],
                                       returned'.args[2] >>], now)
        /\ returned'.op = "getTranslation" =>
            returned'.value =
                Remembered(translationSets[returned'.args[1]], now) ]_vars

\* a setWordMeaning for the pair p / a setTranslation for the sentence s
\* happens in this step
SetsWord(p) == wordSets'[p].present /\ wordSets'[p] # wordSets[p]
SetsTranslation(s) ==
    translationSets'[s].present /\ translationSets'[s] # translationSets[s]

WordReadsUnchanged(pairs) ==
    \A q \in pairs :
        CacheService_getWordMeaning(wordCache', now', q[1], q[2])
            = CacheService_getWordMeaning(wordCache, now, q[1], q[2])

TranslationReadsUnchanged(ss) ==
    \A s \in ss :
        CacheService_getTranslation(translationCache', now', s)
            = CacheService_getTranslation(translationCache, now, s)

\* C25: a setWordMeaning for one (word, context) pair never changes what
\* getWordMeaning returns for a different pair, a setTranslation for one
\* sentence never changes what getTranslation returns for another, and a
\* set in one of the two caches never changes what the other returns.
C25_DistinctKeysAreSeparate ==
    [][ /\ \A p \in WordPairs :
               SetsWord(p) =>
                   /\ WordReadsUnchanged(WordPairs \ {p})
                   /\ TranslationReadsUnchanged(CacheSentences)
        /\ \A s \in CacheSentences :
               SetsTranslation(s) =>
                   /\ TranslationReadsUnchanged(CacheSentences \ {s})
                   /\ WordReadsUnchanged(WordPairs) ]_vars

(***************************************************************************)
(* createBottomPanel: update(state) and the click listener                 *)
(***************************************************************************)
\* the text shown for an error state without a message
DefaultErrorText == <<"E", "r", "r">>

\* state.error || DefaultErrorText: an empty message is falsy
ErrorTextOf(state) ==
    IF state.error.present /\ state.error.val # << >>
    THEN state.error.val
    ELSE DefaultErrorText

\* update emptying the content for a 'word' state without a meaning
update_ClearsWithoutMeaning(panel, state) ==
    [visible |-> state.type # "hidden",
     content |->
         CASE state.type = "hidden" -> EmptyContent
           [] state.type = "loading" -> PanelContent("loading", << >>, Missing)
           [] state.type = "error" ->
                  PanelContent("error", ErrorTextOf(state), Missing)
           [] state.type = "word" ->
                  IF state.meaning.present
                  THEN PanelContent("word-meaning", OrEmpty(state.word),
                                    state.meaning)
                  ELSE EmptyContent
           [] state.type = "translation" ->
                  PanelContent("translation", OrEmpty(state.translation),
                               Missing)]

\* update flipping the class on every call
update_TogglesVisible(panel, state) ==
    [visible |-> ~panel.visible,
     content |->
         CASE state.type = "hidden" -> EmptyContent
           [] state.type = "loading" -> PanelContent("loading", << >>, Missing)
           [] state.type = "error" ->
                  PanelContent("error", ErrorTextOf(state), Missing)
           [] state.type = "word" ->
                  IF state.meaning.present
                  THEN PanelContent("word-meaning", OrEmpty(state.word),
                                    state.meaning)
                  ELSE panel.content
           [] state.type = "translation" ->
                  PanelContent("translation", OrEmpty(state.translation),
                               Missing)]

\* toggle('visible', state.type !== 'hidden'), then the switch on the type
update(panel, state) ==
    [visible |-> state.type # "hidden",
     content |->
         CASE state.type = "hidden" -> EmptyContent
           [] state.type = "loading" -> PanelContent("loading", << >>, Missing)
           [] state.type = "error" ->
                  PanelContent("error", ErrorTextOf(state), Missing)
           [] state.type = "word" ->
                  IF state.meaning.present
                  THEN PanelContent("word-meaning", OrEmpty(state.word),
                                    state.meaning)
                  ELSE panel.content
           [] state.type = "translation" ->
                  PanelContent("translation", OrEmpty(state.translation),
                               Missing)]

\* the panel as the DOM holds it
Panel == [visible |-> panelVisible, content |-> panelContent]

\* a call of update(state), made by the caller or by the click listener
Apply(state, click) ==
    /\ panelVisible' = update(Panel, state).visible
    /\ panelContent' = update(Panel, state).content
    /\ panelState' = state
    /\ panelClick' = click

\* the states update is called with
PanelErrors == { Missing, Some(<< >>), Some(<<"e">>) }
PanelWords == { Missing, Some(<< >>), Some(<<"w">>) }
PanelMeanings == { Missing, Some(Meaning1), Some(Meaning2) }
PanelTranslations == { Missing, Some(<< >>), Some(<<"t">>) }

PanelStates ==
    { HiddenState, LoadingState }
        \cup { [PanelState("error") EXCEPT !.error = e] : e \in PanelErrors }
        \cup { [PanelState("word") EXCEPT !.word = w, !.meaning = m] :
                   w \in PanelWords, m \in PanelMeanings }
        \cup { [PanelState("translation") EXCEPT !.translation = t] :
                   t \in PanelTranslations }

\* what a click can hit: the container itself, its .panel-content child,
\* or an element inside the content
ClickTargets == { "container", "content", "nested" }

PanelUpdate(state) ==
    /\ Apply(state, "")
    /\ UNCHANGED << cacheVars, touchVars, textVars, parseVars, apiVars,
                    appVars >>

\* the click bubbles to the container's listener: e.target === container
PanelClick(target) ==
    /\ target = "nested" => panelContent # EmptyContent
    /\ IF target = "container"
       THEN Apply(HiddenState, target)
       ELSE /\ panelClick' = target
            /\ UNCHANGED << panelVisible, panelContent, panelState >>
    /\ UNCHANGED << cacheVars, touchVars, textVars, parseVars, apiVars,
                    appVars >>

InitPanel ==
    /\ AppIdle
    /\ PanelIdle
    /\ CacheIdle
    /\ TouchIdle
    /\ TextIdle
    /\ ParseIdle
    /\ ApiIdle

NextPanel ==
    \/ \E state \in PanelStates : PanelUpdate(state)
    \/ \E target \in ClickTargets : PanelClick(target)

SpecPanel == InitPanel /\ [][NextPanel]_vars

\* C28: the panel has the class 'visible' if and only if the type of the
\* last applied state is not 'hidden'; applying 'hidden' empties the
\* content; a click on the container itself applies 'hidden', and a click
\* on the content or on anything inside it changes nothing.
C28_VisibleIffLastStateNotHidden ==
    [][ /\ panelState'.type # "" =>
               (panelVisible' <=> panelState'.type # "hidden")
        /\ panelState'.type = "hidden" => panelContent' = EmptyContent
        /\ panelClick' = "container" =>
               /\ panelState' = HiddenState
               /\ ~panelVisible'
        /\ panelClick' \in { "content", "nested" } =>
               /\ panelVisible' = panelVisible
               /\ panelContent' = panelContent
               /\ panelState' = panelState ]_vars

\* the panel has been closed by a click on its container
C28_Witness ==
    /\ panelClick = "container"
    /\ panelState = HiddenState
    /\ ~panelVisible
    /\ panelContent = EmptyContent

(***************************************************************************)
(* createSentence: touchstart arms a 500 ms timeout, touchend and          *)
(* touchmove clear the timeout that longPressTimer holds                   *)
(***************************************************************************)
LongPressMs == 500
MaxTouches == 3
MaxTouchTicks == 4
TouchStepMs == 250

TouchInstants == { k * TouchStepMs : k \in 0..MaxTouchTicks }

Event(type, sentence, at) == [type |-> type, sentence |-> sentence, at |-> at]

\* the ids setTimeout can have handed out
TimerIds == 1..(2 * MaxTouches)

TouchCount ==
    Cardinality({ i \in DOMAIN events : events[i].type # "longpress" })

\* clearTimeout(id)
clearTimeout(pending, id) == { t \in pending : t.id # id }

\* touchstart: longPressTimer = setTimeout(..., 500); setTimeout returns a
\* fresh positive id
TouchStart(s) ==
    /\ TouchCount < MaxTouches
    /\ LET id == Len(events) + 1
       IN  /\ timers' = timers \cup
                          { [id |-> id, due |-> now + LongPressMs,
                             sentence |-> s] }
           /\ longPressTimer' = [longPressTimer EXCEPT ![s] = id]
    /\ events' = Append(events, Event("touchstart", s, now))
    /\ UNCHANGED << now, cacheMaps, panelVars, textVars, parseVars, apiVars,
                    appVars >>

\* touchend: if (longPressTimer) { clearTimeout(longPressTimer); null }
TouchEnd(s) ==
    /\ TouchCount < MaxTouches
    /\ IF longPressTimer[s] # NoTimer
       THEN /\ timers' = clearTimeout(timers, longPressTimer[s])
            /\ longPressTimer' = [longPressTimer EXCEPT ![s] = NoTimer]
       ELSE UNCHANGED << timers, longPressTimer >>
    /\ events' = Append(events, Event("touchend", s, now))
    /\ UNCHANGED << now, cacheMaps, panelVars, textVars, parseVars, apiVars,
                    appVars >>

\* touchmove: the same as touchend
TouchMove(s) ==
    /\ TouchCount < MaxTouches
    /\ IF longPressTimer[s] # NoTimer
       THEN /\ timers' = clearTimeout(timers, longPressTimer[s])
            /\ longPressTimer' = [longPressTimer EXCEPT ![s] = NoTimer]
       ELSE UNCHANGED << timers, longPressTimer >>
    /\ events' = Append(events, Event("touchmove", s, now))
    /\ UNCHANGED << now, cacheMaps, panelVars, textVars, parseVars, apiVars,
                    appVars >>

\* the timeout runs: options.onSentenceLongPress(sentence.text)
TimerFires(id) ==
    /\ \E t \in timers :
           /\ t.id = id
           /\ now >= t.due
           /\ timers' = timers \ {t}
           /\ events' = Append(events, Event("longpress", t.sentence, now))
    /\ UNCHANGED << now, longPressTimer, cacheMaps, panelVars, textVars,
                    parseVars, apiVars, appVars >>

\* time passes; a timeout runs when it is due, not later
TouchClock(t) ==
    /\ t > now
    /\ \A p \in timers : p.due >= t
    /\ now' = t
    /\ UNCHANGED << longPressTimer, timers, events, cacheMaps, panelVars,
                    textVars, parseVars, apiVars, appVars >>

InitTouch ==
    /\ AppIdle
    /\ TouchIdle
    /\ CacheIdle
    /\ PanelIdle
    /\ TextIdle
    /\ ParseIdle
    /\ ApiIdle

NextTouch ==
    \/ \E s \in TouchSentences : TouchStart(s)
    \/ \E s \in TouchSentences : TouchEnd(s)
    \/ \E s \in TouchSentences : TouchMove(s)
    \/ \E id \in TimerIds : TimerFires(id)
    \/ \E t \in TouchInstants : TouchClock(t)

SpecTouch == InitTouch /\ [][NextTouch]_vars

\* the event at position k ends or moves a touch on the sentence
Cancels(k, sentence) ==
    /\ events[k].type \in { "touchend", "touchmove" }
    /\ events[k].sentence = sentence

\* the long press at position i answers the touchstart at position j
AnswersTouch(i, j) ==
    /\ j < i
    /\ events[j].type = "touchstart"
    /\ events[j].sentence = events[i].sentence
    /\ events[j].at + 500 = events[i].at
    /\ \A k \in (j + 1)..(i - 1) : ~Cancels(k, events[i].sentence)

LongPresses == { i \in DOMAIN events : events[i].type = "longpress" }
TouchStarts == { j \in DOMAIN events : events[j].type = "touchstart" }

\* C27: onSentenceLongPress is invoked with a sentence's text exactly when
\* a touchstart on that sentence has been followed by 500 ms with no
\* touchend or touchmove on it in between: every invocation answers such a
\* touchstart, no touchstart is answered twice, and every touchstart left
\* alone for more than 500 ms has been answered.
C27_LongPressExactlyAfter500ms ==
    /\ \A i \in LongPresses : \E j \in TouchStarts : AnswersTouch(i, j)
    /\ \A j \in TouchStarts :
           Cardinality({ i \in LongPresses : AnswersTouch(i, j) }) <= 1
    /\ \A j \in TouchStarts :
           ( /\ now > events[j].at + 500
             /\ \A k \in DOMAIN events :
                    (k > j /\ Cancels(k, events[j].sentence))
                        => events[k].at > events[j].at + 500 )
               => \E i \in LongPresses : AnswersTouch(i, j)

(***************************************************************************)
(* App.showWordMeaning / App.showTranslation: cache first, then the API    *)
(***************************************************************************)
MaxLookups == 2

\* the reader hands over cleaned words (no punctuation) and sentence texts
AppWords == { <<"a">> }
AppSentences == CacheContexts

\* what the API answers with: a WordMeaning, a { translation }, or an error
\* whose message is the server's or the client's default
ApiMeanings == { Meaning1 }
ApiTranslations == { << >>, <<"t">> }
ApiErrorMessages == { <<"e">> }

\* if (cached): null and the empty string are falsy, an object is truthy
Truthy(cached) == cached.present /\ cached.val # << >>

Lookup(kind, word, sentence, cached, pc, calls) ==
    [kind |-> kind, word |-> word, sentence |-> sentence, cached |-> cached,
     pc |-> pc, calls |-> calls]

WordState(word, meaning) ==
    [PanelState("word") EXCEPT !.word = Some(word), !.meaning = Some(meaning)]

TranslationState(translation) ==
    [PanelState("translation") EXCEPT !.translation = Some(translation)]

ErrorState(message) == [PanelState("error") EXCEPT !.error = Some(message)]

\* lines 69-82: the cached meaning is shown, or 'loading' and the request
ShowWordMeaning(word, sentence) ==
    /\ Len(lookups) < MaxLookups
    /\ LET cached == CacheService_getWordMeaning(wordCache, now, word,
                                                 sentence)
       IN  /\ returned' = [op |-> "getWordMeaning",
                           args |-> << word, sentence >>, value |-> cached]
           /\ IF cached.present    \* a WordMeaning object is truthy
              THEN /\ Apply(WordState(word, cached.val), "")
                   /\ lookups' = Append(lookups,
                                     Lookup("word", word, sentence, cached,
                                            "done", 0))
              ELSE /\ Apply(LoadingState, "")
                   /\ lookups' = Append(lookups,
                                     Lookup("word", word, sentence, cached,
                                            "waiting", 1))
    /\ UNCHANGED << now, wordCache, translationCache, wordSets,
                    translationSets, cacheOps, touchVars, loadVars, textVars,
                    parseVars, apiVars >>

\* lines 100-112: the cached translation is shown, or 'loading' and the
\* request
ShowTranslation(sentence) ==
    /\ Len(lookups) < MaxLookups
    /\ LET cached == CacheService_getTranslation(translationCache, now,
                                                 sentence)
       IN  /\ returned' = [op |-> "getTranslation", args |-> << sentence >>,
                           value |-> cached]
           /\ IF Truthy(cached)
              THEN /\ Apply(TranslationState(cached.val), "")
                   /\ lookups' = Append(lookups,
                                     Lookup("translation", << >>, sentence,
                                            cached, "done", 0))
              ELSE /\ Apply(LoadingState, "")
                   /\ lookups' = Append(lookups,
                                     Lookup("translation", << >>, sentence,
                                            cached, "waiting", 1))
    /\ UNCHANGED << now, wordCache, translationCache, wordSets,
                    translationSets, cacheOps, touchVars, loadVars, textVars,
                    parseVars, apiVars >>

\* the meaning shown without being cached
WordMeaningArrives_SkipsCache(i, meaning) ==
    /\ i \in DOMAIN lookups
    /\ lookups[i].kind = "word"
    /\ lookups[i].pc = "waiting"
    /\ returned' = Void
    /\ Apply(WordState(lookups[i].word, meaning), "")
    /\ lookups' = [lookups EXCEPT ![i].pc = "done"]
    /\ UNCHANGED << now, wordCache, wordSets, cacheOps, translationCache,
                    translationSets, touchVars, loadVars, textVars, parseVars,
                    apiVars >>

\* lines 85-91: the meaning arrives, is cached and shown
WordMeaningArrives(i, meaning) ==
    /\ i \in DOMAIN lookups
    /\ lookups[i].kind = "word"
    /\ lookups[i].pc = "waiting"
    /\ wordCache' = CacheService_setWordMeaning(wordCache, now,
                        lookups[i].word, lookups[i].sentence, meaning)
    /\ wordSets' = [wordSets EXCEPT
                        ![<< lookups[i].word, lookups[i].sentence >>] =
                            Some(CacheEntry(meaning, now))]
    /\ cacheOps' = cacheOps + 1
    /\ returned' = Void
    /\ Apply(WordState(lookups[i].word, meaning), "")
    /\ lookups' = [lookups EXCEPT ![i].pc = "done"]
    /\ UNCHANGED << now, translationCache, translationSets, touchVars, loadVars,
                    textVars, parseVars, apiVars >>

\* lines 115-120: the translation arrives, is cached and shown
TranslationArrives(i, translation) ==
    /\ i \in DOMAIN lookups
    /\ lookups[i].kind = "translation"
    /\ lookups[i].pc = "waiting"
    /\ translationCache' = CacheService_setTranslation(translationCache, now,
                               lookups[i].sentence, translation)
    /\ translationSets' = [translationSets EXCEPT ![lookups[i].sentence] =
                               Some(CacheEntry(translation, now))]
    /\ cacheOps' = cacheOps + 1
    /\ returned' = Void
    /\ Apply(TranslationState(translation), "")
    /\ lookups' = [lookups EXCEPT ![i].pc = "done"]
    /\ UNCHANGED << now, wordCache, wordSets, touchVars, loadVars, textVars,
                    parseVars, apiVars >>

\* lines 92-96 and 121-125: the request fails and the error is shown
LookupFails(i, message) ==
    /\ i \in DOMAIN lookups
    /\ lookups[i].pc = "waiting"
    /\ Apply(ErrorState(message), "")
    /\ lookups' = [lookups EXCEPT ![i].pc = "done"]
    /\ UNCHANGED << cacheVars, touchVars, loadVars, textVars, parseVars, apiVars >>

\* time passes between the reader's actions and the API's answers
AppClock(t) ==
    /\ t > now
    /\ now' = t
    /\ UNCHANGED << cacheMaps, panelVars, touchVars, appVars, textVars,
                    parseVars, apiVars >>

InitApp ==
    /\ AppIdle
    /\ CacheIdle
    /\ PanelIdle
    /\ TouchIdle
    /\ TextIdle
    /\ ParseIdle
    /\ ApiIdle

NextApp ==
    \/ \E word \in AppWords, sentence \in AppSentences :
           ShowWordMeaning(word, sentence)
    \/ \E sentence \in AppSentences : ShowTranslation(sentence)
    \/ \E i \in 1..MaxLookups, meaning \in ApiMeanings :
           WordMeaningArrives(i, meaning)
    \/ \E i \in 1..MaxLookups, translation \in ApiTranslations :
           TranslationArrives(i, translation)
    \/ \E i \in 1..MaxLookups, message \in ApiErrorMessages :
           LookupFails(i, message)
    \/ \E t \in Instants : AppClock(t)

SpecApp == InitApp /\ [][NextApp]_vars

\* the cache holds an unexpired entry under the key
HoldsUnexpired(cache, key) ==
    /\ cache[key].present
    /\ now - cache[key].val.timestamp <= 24 * 60 * 60 * 1000

\* a showWordMeaning / showTranslation call starts in this step
Starts(kind) ==
    /\ Len(lookups') = Len(lookups) + 1
    /\ lookups'[Len(lookups')].kind = kind

\* C26: whenever the cache holds an unexpired entry for the clicked
\* (word, sentence) or for the long-pressed sentence, the panel shows that
\* cached value at once and no API request is issued for the interaction,
\* whatever the cached value is.
C26_CachedValueShownWithoutRequest ==
    [][ LET l == lookups'[Len(lookups')]
        IN  /\ ( /\ Starts("word")
                 /\ HoldsUnexpired(wordCache, WordKey(l.word, l.sentence)) )
                  => /\ l.calls = 0
                     /\ l.pc = "done"
                     /\ panelState' =
                            WordState(l.word,
                                wordCache[WordKey(l.word, l.sentence)]
                                    .val.data)
                     /\ panelVisible'
            /\ ( /\ Starts("translation")
                 /\ HoldsUnexpired(translationCache, l.sentence) )
                  => /\ l.calls = 0
                     /\ l.pc = "done"
                     /\ panelState' =
                            TranslationState(
                                translationCache[l.sentence].val.data)
                     /\ panelVisible' ]_vars

\* the lookup at position i gets its answer in this step
Completes(i) ==
    /\ i \in DOMAIN lookups
    /\ lookups[i].pc = "waiting"
    /\ lookups'[i].pc = "done"

CachesUnchanged ==
    /\ wordCache' = wordCache
    /\ translationCache' = translationCache

\* C31: on a cache miss showWordMeaning / showTranslation put the panel in
\* 'loading' and issue exactly one API call; when the call succeeds its
\* result is written to the cache under the lookup's key and shown, and
\* when it fails the panel shows 'error' and nothing is written to the
\* cache.
C31_MissLoadsCallsOnceCachesAndShows ==
    [][ /\ LET l == lookups'[Len(lookups')]
           IN  /\ ( /\ Starts("word")
                    /\ ~HoldsUnexpired(wordCache,
                                       WordKey(l.word, l.sentence)) )
                     => /\ panelState' = LoadingState
                        /\ panelVisible'
                        /\ l.calls = 1
                        /\ l.pc = "waiting"
                        /\ CachesUnchanged
               /\ ( /\ Starts("translation")
                    /\ ~HoldsUnexpired(translationCache, l.sentence) )
                     => /\ panelState' = LoadingState
                        /\ panelVisible'
                        /\ l.calls = 1
                        /\ l.pc = "waiting"
                        /\ CachesUnchanged
        /\ \A i \in DOMAIN lookups :
               /\ lookups'[i].calls = lookups[i].calls
               /\ (Completes(i) /\ panelState'.type = "error")
                      => CachesUnchanged
               /\ ( /\ Completes(i)
                    /\ panelState'.type # "error"
                    /\ lookups[i].kind = "word" )
                      => LET key == WordKey(lookups[i].word,
                                            lookups[i].sentence)
                         IN  /\ wordCache'[key].present
                             /\ wordCache'[key].val.timestamp = now
                             /\ panelState' =
                                    WordState(lookups[i].word,
                                              wordCache'[key].val.data)
                             /\ \A k \in WordKeys \ {key} :
                                    wordCache'[k] = wordCache[k]
                             /\ translationCache' = translationCache
               /\ ( /\ Completes(i)
                    /\ panelState'.type # "error"
                    /\ lookups[i].kind = "translation" )
                      => LET s == lookups[i].sentence
                         IN  /\ translationCache'[s].present
                             /\ translationCache'[s].val.timestamp = now
                             /\ panelState' =
                                    TranslationState(
                                        translationCache'[s].val.data)
                             /\ \A k \in CacheSentences \ {s} :
                                    translationCache'[k] = translationCache[k]
                             /\ wordCache' = wordCache ]_vars

\* a word lookup that missed the cache made its one call, and its answer is
\* now in the cache under its key and in the panel
C31_Witness ==
    \E i \in DOMAIN lookups :
        /\ lookups[i].kind = "word"
        /\ ~lookups[i].cached.present
        /\ lookups[i].calls = 1
        /\ lookups[i].pc = "done"
        /\ wordCache[WordKey(lookups[i].word, lookups[i].sentence)].present
        /\ panelState =
               WordState(lookups[i].word,
                         wordCache[WordKey(lookups[i].word,
                                           lookups[i].sentence)].val.data)

\* C32: applying a state of type 'word' that has no meaning leaves the
\* panel content exactly as the previous state left it and makes the panel
\* visible.
C32_WordWithoutMeaningKeepsContent ==
    [][ ( /\ panelClick' = ""
          /\ panelState'.type = "word"
          /\ ~panelState'.meaning.present )
            => /\ panelContent' = panelContent
               /\ panelVisible' ]_vars

\* a 'word' state without a meaning was applied over a shown translation
C32_Witness ==
    /\ panelState.type = "word"
    /\ ~panelState.meaning.present
    /\ panelVisible
    /\ panelContent.kind = "translation"

(***************************************************************************)
(* Word spans of the article reader (src/components/article-reader.ts,     *)
(* src/utils/text-processor.ts, src/utils/stop-words.ts)                   *)
(***************************************************************************)
STOP_WORDS == {
    <<"a">>, <<"a", "n">>, <<"t", "h", "e">>, <<"i">>, <<"y", "o", "u">>,
    <<"h", "e">>, <<"s", "h", "e">>, <<"i", "t">>, <<"w", "e">>,
    <<"t", "h", "e", "y">>, <<"m", "e">>, <<"h", "i", "m">>,
    <<"h", "e", "r">>, <<"u", "s">>, <<"t", "h", "e", "m">>, <<"m", "y">>,
    <<"y", "o", "u", "r">>, <<"h", "i", "s">>, <<"i", "t", "s">>,
    <<"o", "u", "r">>, <<"t", "h", "e", "i", "r">>, <<"m", "i", "n", "e">>,
    <<"y", "o", "u", "r", "s">>, <<"o", "u", "r", "s">>,
    <<"t", "h", "e", "i", "r", "s">>, <<"t", "h", "i", "s">>,
    <<"t", "h", "a", "t">>, <<"t", "h", "e", "s", "e">>,
    <<"t", "h", "o", "s", "e">>, <<"i", "n">>, <<"o", "n">>, <<"a", "t">>,
    <<"t", "o">>, <<"f", "o", "r">>, <<"w", "i", "t", "h">>, <<"b", "y">>,
    <<"f", "r", "o", "m">>, <<"o", "f">>, <<"a", "b", "o", "u", "t">>,
    <<"i", "n", "t", "o">>, <<"t", "h", "r", "o", "u", "g", "h">>,
    <<"d", "u", "r", "i", "n", "g">>, <<"b", "e", "f", "o", "r", "e">>,
    <<"a", "f", "t", "e", "r">>, <<"a", "b", "o", "v", "e">>,
    <<"b", "e", "l", "o", "w">>, <<"b", "e", "t", "w", "e", "e", "n">>,
    <<"u", "n", "d", "e", "r">>, <<"a", "g", "a", "i", "n">>,
    <<"f", "u", "r", "t", "h", "e", "r">>, <<"t", "h", "e", "n">>,
    <<"o", "n", "c", "e">>, <<"a", "n", "d">>, <<"b", "u", "t">>,
    <<"o", "r">>, <<"n", "o", "r">>, <<"s", "o">>, <<"y", "e", "t">>,
    <<"b", "o", "t", "h">>, <<"e", "i", "t", "h", "e", "r">>,
    <<"n", "e", "i", "t", "h", "e", "r">>, <<"n", "o", "t">>,
    <<"o", "n", "l", "y">>, <<"i", "f">>, <<"w", "h", "e", "n">>,
    <<"w", "h", "i", "l", "e">>, <<"a", "l", "t", "h", "o", "u", "g", "h">>,
    <<"b", "e", "c", "a", "u", "s", "e">>, <<"u", "n", "l", "e", "s", "s">>,
    <<"b", "e">>, <<"i", "s">>, <<"a", "m">>, <<"a", "r", "e">>,
    <<"w", "a", "s">>, <<"w", "e", "r", "e">>, <<"b", "e", "e", "n">>,
    <<"b", "e", "i", "n", "g">>, <<"h", "a", "v", "e">>, <<"h", "a", "s">>,
    <<"h", "a", "d">>, <<"h", "a", "v", "i", "n", "g">>, <<"d", "o">>,
    <<"d", "o", "e", "s">>, <<"d", "i", "d">>, <<"d", "o", "i", "n", "g">>,
    <<"d", "o", "n", "e">>, <<"c", "a", "n">>, <<"c", "o", "u", "l", "d">>,
    <<"w", "i", "l", "l">>, <<"w", "o", "u", "l", "d">>,
    <<"s", "h", "a", "l", "l">>, <<"s", "h", "o", "u", "l", "d">>,
    <<"m", "a", "y">>, <<"m", "i", "g", "h", "t">>, <<"m", "u", "s", "t">>,
    <<"g", "e", "t">>, <<"g", "o", "t">>, <<"g", "o">>,
    <<"w", "e", "n", "t">>, <<"g", "o", "n", "e">>, <<"m", "a", "k", "e">>,
    <<"m", "a", "d", "e">>, <<"a", "s">>, <<"t", "h", "a", "n">>,
    <<"s", "u", "c", "h">>, <<"n", "o">>, <<"y", "e", "s">>,
    <<"v", "e", "r", "y">>, <<"j", "u", "s", "t">>, <<"a", "l", "s", "o">>,
    <<"t", "o", "o">>, <<"h", "e", "r", "e">>, <<"t", "h", "e", "r", "e">>,
    <<"w", "h", "e", "r", "e">>, <<"h", "o", "w">>, <<"w", "h", "a", "t">>,
    <<"w", "h", "o">>, <<"w", "h", "i", "c", "h">>, <<"w", "h", "y">>,
    <<"a", "l", "l">>, <<"e", "a", "c", "h">>, <<"e", "v", "e", "r", "y">>,
    <<"a", "n", "y">>, <<"s", "o", "m", "e">>, <<"m", "o", "s", "t">>,
    <<"o", "t", "h", "e", "r">>, <<"o", "w", "n">>, <<"s", "a", "m", "e">>,
    <<"f", "e", "w">>, <<"m", "o", "r", "e">>, <<"n", "o", "w">>,
    <<"o", "v", "e", "r">>, <<"u", "p">>, <<"d", "o", "w", "n">>,
    <<"o", "u", "t">> }

UpperLetters ==
    << "A", "B", "C", "D", "E", "F", "G", "H", "I", "J", "K", "L", "M", "N",
       "O", "P", "Q", "R", "S", "T", "U", "V", "W", "X", "Y", "Z" >>
LowerLetters ==
    << "a", "b", "c", "d", "e", "f", "g", "h", "i", "j", "k", "l", "m", "n",
       "o", "p", "q", "r", "s", "t", "u", "v", "w", "x", "y", "z" >>

\* String.prototype.toLowerCase on the letters A to Z
toLowerCase(s) ==
    [i \in 1..Len(s) |->
        IF \E k \in 1..26 : UpperLetters[k] = s[i]
        THEN LowerLetters[CHOOSE k \in 1..26 : UpperLetters[k] = s[i]]
        ELSE s[i]]

\* STOP_WORDS.has(word) without lowering the word first
isStopWord_CaseSensitive(word) == word \in STOP_WORDS

\* STOP_WORDS.has(word.toLowerCase())
isStopWord(word) == toLowerCase(word) \in STOP_WORDS

\* the character class of cleanWord: . , ! ? ; : ' " ( ) [ ] { }
CleanedCharacters ==
    {".", ",", "!", "?", ";", ":", "'", "\"", "(", ")", "[", "]", "{", "}"}

NotCleaned(c) == c \notin CleanedCharacters

\* word.replace(/[.,!?;:'"()[\]{}]/g, '').trim()
cleanWord(word) == trim(SelectSeq(word, NotCleaned))

\* /^\d+$/.test(s)
AllDigits(s) == Len(s) > 0 /\ \A i \in 1..Len(s) : IsDigit(s[i])

shouldShowWordMeaning(word) ==
    LET cleaned == cleanWord(word)
    IN  /\ ~(Len(cleaned) < 2)
        /\ ~isStopWord(cleaned)
        /\ ~AllDigits(cleaned)

\* createSentence: one span per piece of sentence.text.split(/\s+/); a
\* span is given the class 'clickable' and the click listener together
createSentence(sentenceText) ==
    LET pieces == splitSpace(sentenceText, 1, 1)
    IN  [i \in 1..Len(pieces) |->
            [text |-> pieces[i],
             clickable |-> shouldShowWordMeaning(pieces[i])]]

\* the sentences of the article shown
Sentence1 ==
    << "T", "h", "e", " ", "e", "c", "o", "n", "o", "m", "y", " ", "i", "s",
       " ", "g", "r", "o", "w", "i", "n", "g", " ", "r", "a", "p", "i", "d",
       "l", "y", "." >>

Sentence2 ==
    << "I", "S", " ", "i", "t", "'", "s", " ", "4", "2", " ", "x", " ", "4",
       "G", " ", "(", "o", "k", ")", " ", ".", "." >>

Sentence3 ==
    << "\"", "N", "o", ",", "\"", " ", "a", " ", "7", "-", "d", "a", "y", " ",
       "[", "p", "l", "a", "n", "]", " ", "w", "o", "n", "'", "t", " ", "d",
       "o", "!" >>
ReaderSentences == { Sentence1, Sentence2, Sentence3 }

MaxClicks == 2

\* a click on the i-th word span of a sentence: a clickable span stops
\* the propagation and calls onWordClick(cleanWord(word), sentence.text)
ClickWord(sentenceText, i) ==
    /\ Len(events) < MaxClicks
    /\ i \in DOMAIN createSentence(sentenceText)
    /\ LET span == createSentence(sentenceText)[i]
       IN  events' =
               Append(events,
                   [type |-> "click", sentence |-> sentenceText, at |-> now,
                    index |-> i,
                    calls |-> IF span.clickable
                              THEN << [word |-> cleanWord(span.text),
                                       sentence |-> sentenceText] >>
                              ELSE << >>,
                    propagated |-> ~span.clickable])
    /\ UNCHANGED << now, longPressTimer, timers, cacheMaps, panelVars,
                    appVars, textVars, parseVars, apiVars >>

MaxWordsShown == 7

InitReader ==
    /\ TouchIdle
    /\ CacheIdle
    /\ PanelIdle
    /\ AppIdle
    /\ TextIdle
    /\ ParseIdle
    /\ ApiIdle

NextReader ==
    \E s \in ReaderSentences, i \in 1..MaxWordsShown : ClickWord(s, i)

SpecReader == InitReader /\ [][NextReader]_vars

\* the text of a span with the characters . , ! ? ; : ' " ( ) [ ] { }
\* removed
WordOf(span) == cleanWord(span.text)

\* at least 2 characters, no stop word whatever its case, not all digits
IsContentWord(w) ==
    /\ Len(w) >= 2
    /\ toLowerCase(w) \notin STOP_WORDS
    /\ \E i \in 1..Len(w) : w[i] \notin { Digits[d] : d \in 1..10 }

Clicks == { k \in DOMAIN events : events[k].type = "click" }

\* C33: a word span is clickable exactly when its text, after cleanWord,
\* has at least 2 characters, is not a stop word (case-insensitively) and
\* is not all digits; a click on a clickable word calls onWordClick once
\* with the cleaned word and the full sentence text and does not
\* propagate; a click on any other word calls nothing.
C33_ClickableWordsAndTheirClicks ==
    /\ \A s \in ReaderSentences :
           \A i \in DOMAIN createSentence(s) :
               createSentence(s)[i].clickable
                   <=> IsContentWord(WordOf(createSentence(s)[i]))
    /\ \A k \in Clicks :
           LET span == createSentence(events[k].sentence)[events[k].index]
           IN  IF IsContentWord(WordOf(span))
               THEN /\ events[k].calls =
                           << [word |-> WordOf(span),
                               sentence |-> events[k].sentence] >>
                    /\ ~events[k].propagated
               ELSE events[k].calls = << >>

\* the capitalised stop word "The" and the word "rapidly." of one sentence
\* have been clicked: the first called nothing, the second reported
\* "rapidly"
C33_Witness ==
    /\ Len(events) = 2
    /\ events[1].type = "click"
    /\ events[1].sentence = Sentence1
    /\ events[1].index = 1
    /\ events[1].calls = << >>
    /\ events[2].type = "click"
    /\ events[2].index = 5
    /\ events[2].calls =
           << [word |-> <<"r", "a", "p", "i", "d", "l", "y">>,
               sentence |-> Sentence1] >>

(***************************************************************************)
(* The API with its requests handled strictly one after another: a request *)
(* is received only when every earlier one has been answered, and a key    *)
(* expires only between two requests.                                      *)
(***************************************************************************)
NoneInProgress ==
    \A q \in Requests : requests[q].pc \in { "idle", "done" }

SeqArticleValidate(r) == NoneInProgress /\ ArticleValidate(r)

SeqTranslateValidate(r) == NoneInProgress /\ TranslateValidate(r)

SeqWordValidate(r) == NoneInProgress /\ WordValidate(r)

SeqKvExpire(k) == NoneInProgress /\ KvExpire(k)

NextApiSeq ==
    \/ \E r \in Requests :
           \/ SeqArticleValidate(r)
           \/ ArticleCheckLimit(r)
           \/ ArticleFetch(r)
           \/ ArticleParse(r)
           \/ ArticleIncrementGet(r)
           \/ ArticleIncrementPut(r)
           \/ SeqTranslateValidate(r)
           \/ TranslateCheckLimit(r)
           \/ TranslateCall(r)
           \/ TranslateIncrementGet(r)
           \/ TranslateIncrementPut(r)
           \/ SeqWordValidate(r)
           \/ WordCall(r)
    \/ \E k \in KvKeys : SeqKvExpire(k)

SpecApiSeq == InitApi /\ [][NextApiSeq]_vars

(***************************************************************************)
(* C34: with the requests of one client to one endpoint type handled one   *)
(* after another, a request is answered 429 at its limit check exactly     *)
(* when maxRequests requests of that client and type have been served      *)
(* since the counter key last expired, and goes on to its fetch or call    *)
(* otherwise; once the key has expired the next request is allowed again.  *)
(***************************************************************************)
ServedSinceExpiry(type, ip) == served[<<"rate", type, ip>>]

C34_FirstMaxRequestsServedThen429 ==
    [][\A r \in Requests :
           ChecksLimit(r) =>
               LET type == requests[r].endpoint
                   ip   == requests[r].ip
               IN  /\ ServedSinceExpiry(type, ip) >= MaxRequestsOf(type)
                          <=> /\ requests'[r].pc = "done"
                              /\ requests'[r].resp.status = 429
                   /\ ServedSinceExpiry(type, ip) < MaxRequestsOf(type)
                          <=> requests'[r].pc \in { "fetch", "call" }
                   /\ ~kv[<<"rate", type, ip>>].present =>
                          requests'[r].pc \in { "fetch", "call" }]_vars

\* the client's 31st article request was answered 429, the key expired,
\* and its next article request was served
C34_Witness ==
    \E r1, r2 \in Requests :
        /\ r1 < r2
        /\ requests[r1].endpoint = "article"
        /\ requests[r2].endpoint = "article"
        /\ requests[r1].ip = ClientIp
        /\ requests[r2].ip = ClientIp
        /\ requests[r1].limitResult = Some([allowed |-> FALSE, remaining |-> 0])
        /\ requests[r1].resp.status = 429
        /\ requests[r2].limitResult =
               Some([allowed |-> TRUE, remaining |-> ArticleMaxRequests])
        /\ requests[r2].resp.status = 200
        /\ served[<<"rate", "article", ClientIp>>] = 1

\* every lookup started so far has its answer
AllAnswered == \A i \in DOMAIN lookups : lookups[i].pc = "done"

\* the panel state a lookup can end in: its word's meaning or its
\* translation, or an error
ResultOf(l, state) ==
    \/ state.type = "error"
    \/ l.kind = "word" /\ state.type = "word" /\ state.word = Some(l.word)
    \/ l.kind = "translation" /\ state.type = "translation"

\* C35: when lookups overlap, once all responses have arrived the panel
\* shows the result of the most recently requested lookup, not that of an
\* earlier one whose response arrived later.
C35_PanelShowsLatestLookup ==
    (lookups # << >> /\ AllAnswered) =>
        ResultOf(lookups[Len(lookups)], panelState)

(***************************************************************************)
(* App: loading an article (showUrlInput, loadArticle, showArticle,        *)
(* showError) and the submit handler of components/url-input.ts            *)
(***************************************************************************)
MaxSubmits == 3

\* what the URL field holds when the form is submitted
UrlInputs == { << >>, <<" ">>, <<"u">>, <<" ", "v">> }

\* the `error` property of the body of a response that is not ok
ApiErrorFields == { Missing, Some(<< >>), Some(<<"e">>) }

\* 'Failed to fetch article'
DefaultFetchError == <<"F">>

\* the ParsedArticle the API answers with for a URL
ArticleAt(u) == [source |-> u]

\* lines 50-67: the back button and the reader of the article
showArticle(article) == [Screen("article") EXCEPT !.article = article]

\* lines 129-143: the message and the retry button
showError(message) == [Screen("error") EXCEPT !.message = message]

\* api-client.ts line 33: error.error || 'Failed to fetch article'
fetchArticleError(error) ==
    IF error.present /\ error.val # << >> THEN error.val
    ELSE DefaultFetchError

\* loadArticle leaving the URL form on the screen while it fetches
loadArticle_KeepsForm(fetches, u) ==
    [screen |-> showUrlInput,
     fetches |-> Append(fetches, [url |-> u, pc |-> "pending"])]

\* lines 31-41: the loading screen replaces what #app showed, then
\* apiClient.fetchArticle(url) is awaited
loadArticle(fetches, u) ==
    [screen |-> Screen("loading"),
     fetches |-> Append(fetches, [url |-> u, pc |-> "pending"])]

\* url-input.ts lines 31-37: the form, which only the URL screen has, is
\* submitted; a blank value does nothing
Submit(input) ==
    /\ screen.view = "input"
    /\ Len(articleFetches) < MaxSubmits
    /\ IF trim(input) # << >>
       THEN /\ screen' = loadArticle(articleFetches, trim(input)).screen
            /\ articleFetches' =
                   loadArticle(articleFetches, trim(input)).fetches
       ELSE UNCHANGED << screen, articleFetches >>
    /\ UNCHANGED << lookups, cacheVars, panelVars, touchVars, textVars,
                    parseVars, apiVars >>

\* lines 42-44: the article arrives and is shown
ArticleArrives(i) ==
    /\ i \in DOMAIN articleFetches
    /\ articleFetches[i].pc = "pending"
    /\ articleFetches' = [articleFetches EXCEPT ![i].pc = "resolved"]
    /\ screen' = showArticle(ArticleAt(articleFetches[i].url))
    /\ UNCHANGED << lookups, cacheVars, panelVars, touchVars, textVars,
                    parseVars, apiVars >>

\* lines 45-47: fetchArticle throws and the error's message is shown
ArticleFails(i, error) ==
    /\ i \in DOMAIN articleFetches
    /\ articleFetches[i].pc = "pending"
    /\ articleFetches' = [articleFetches EXCEPT ![i].pc = "rejected"]
    /\ screen' = showError(fetchArticleError(error))
    /\ UNCHANGED << lookups, cacheVars, panelVars, touchVars, textVars,
                    parseVars, apiVars >>

\* line 57: the back button of the article screen
Back ==
    /\ screen.view = "article"
    /\ screen' = showUrlInput
    /\ UNCHANGED << articleFetches, lookups, cacheVars, panelVars, touchVars,
                    textVars, parseVars, apiVars >>

\* lines 140-141: the retry button of the error screen
Retry ==
    /\ screen.view = "error"
    /\ screen' = showUrlInput
    /\ UNCHANGED << articleFetches, lookups, cacheVars, panelVars, touchVars,
                    textVars, parseVars, apiVars >>

InitLoad ==
    /\ AppIdle
    /\ CacheIdle
    /\ PanelIdle
    /\ TouchIdle
    /\ TextIdle
    /\ ParseIdle
    /\ ApiIdle

NextLoad ==
    \/ \E input \in UrlInputs : Submit(input)
    \/ \E i \in 1..MaxSubmits : ArticleArrives(i)
    \/ \E i \in 1..MaxSubmits, error \in ApiErrorFields : ArticleFails(i, error)
    \/ Back
    \/ Retry

SpecLoad == InitLoad /\ [][NextLoad]_vars

\* the fetches whose answer has not arrived
PendingFetches ==
    { i \in DOMAIN articleFetches : articleFetches[i].pc = "pending" }

\* a fetch is started in this step
StartsFetch == Len(articleFetches') > Len(articleFetches)

\* the fetch at position i gets its answer in this step
FetchCompletes(i) ==
    /\ i \in PendingFetches
    /\ articleFetches'[i].pc # "pending"

\* C36: at most one article fetch is in flight at any time; while a fetch
\* is pending the App shows the loading screen, which has no URL form, and
\* no fetch is started; the article or error screen shown when the fetch
\* completes belongs to the most recently submitted URL.
C36_OneFetchInFlight ==
    [][ /\ Cardinality(PendingFetches') <= 1
        /\ PendingFetches' # { } => screen'.view = "loading"
        /\ StartsFetch => PendingFetches = { } /\ screen.view = "input"
        /\ \A i \in DOMAIN articleFetches :
               FetchCompletes(i) =>
                   /\ i = Len(articleFetches)
                   /\ \/ /\ articleFetches'[i].pc = "resolved"
                         /\ screen'.view = "article"
                         /\ screen'.article.source = articleFetches[i].url
                      \/ /\ articleFetches'[i].pc = "rejected"
                         /\ screen'.view = "error" ]_vars

\* the fetch of a first URL failed, and after a retry the
\* article of a second URL is shown
C36_Witness ==
    /\ Len(articleFetches) = 2
    /\ articleFetches[1] = [url |-> <<"u">>, pc |-> "rejected"]
    /\ articleFetches[2] = [url |-> <<"v">>, pc |-> "resolved"]
    /\ screen = showArticle(ArticleAt(<<"v">>))

(***************************************************************************)
(* The API within one window: no counter key expires.                      *)
(***************************************************************************)
NextApiWindow ==
    \E r \in Requests :
        \/ ArticleValidate(r)
        \/ ArticleCheckLimit(r)
        \/ ArticleFetch(r)
        \/ ArticleParse(r)
        \/ ArticleIncrementGet(r)
        \/ ArticleIncrementPut(r)
        \/ TranslateValidate(r)
        \/ TranslateCheckLimit(r)
        \/ TranslateCall(r)
        \/ TranslateIncrementGet(r)
        \/ TranslateIncrementPut(r)
        \/ WordValidate(r)
        \/ WordCall(r)

SpecApiWindow == InitApi /\ [][NextApiWindow]_vars

\* C37: within one window, however the requests of one client to one
\* endpoint type interleave, the stored counter equals the number of that
\* client's requests served with 200: no increment is lost when two
\* increments overlap.
C37_CounterEqualsServed ==
    \A type \in RateTypes, ip \in Ips :
        CounterOf(type, ip) = served[RateKey(type, ip)]

(***************************************************************************)
(* The API with the passing of time: the ttl of a stored key is the time   *)
(* it has left, in seconds; a key written with expirationTtl is gone once  *)
(* that many seconds have passed.                                          *)
(***************************************************************************)
WindowSeconds(type) == ttlSeconds(RATE_LIMITS(type).windowMs)

\* half a window or a whole one passes
TickSeconds == { WindowSeconds("article") \div 2, WindowSeconds("article") }

KvTick(d) ==
    /\ \E k \in KvKeys : kv[k].present
    /\ kv' = [k \in KvKeys |->
                 IF kv[k].present /\ kv[k].ttl > d
                 THEN [kv[k] EXCEPT !.ttl = @ - d]
                 ELSE Absent]
    /\ served' = [k \in KvKeys |->
                     IF kv[k].present /\ kv[k].ttl > d THEN served[k] ELSE 0]
    /\ UNCHANGED << requests, env, textVars, parseVars, clientVars >>

NextApiTimed ==
    \/ \E r \in Requests :
           \/ SeqArticleValidate(r)
           \/ ArticleCheckLimit(r)
           \/ ArticleFetch(r)
           \/ ArticleParse(r)
           \/ ArticleIncrementGet(r)
           \/ ArticleIncrementPut(r)
           \/ SeqTranslateValidate(r)
           \/ TranslateCheckLimit(r)
           \/ TranslateCall(r)
           \/ TranslateIncrementGet(r)
           \/ TranslateIncrementPut(r)
           \/ SeqWordValidate(r)
           \/ WordCall(r)
    \/ \E d \in TickSeconds : KvTick(d)

SpecApiTimed == InitApi /\ [][NextApiTimed]_vars

\* time passes in this step
TimePasses == requests' = requests /\ kv' # kv

(***************************************************************************)
(* C38: every increment rewrites the counter key with a fresh full-window  *)
(* expiration, whatever time the key had left, so the key lives one window *)
(* from the client's most recent successful request: only the passing of   *)
(* time removes a key, and while the key lives, time never resets its      *)
(* count.                                                                  *)
(***************************************************************************)
C38_IncrementRenewsExpiry ==
    [][ /\ \A r \in Requests :
               WritesCounter(r) =>
                   LET key == <<"rate", requests[r].endpoint, requests[r].ip>>
                   IN  /\ kv'[key].present
                       /\ kv'[key].ttl = WindowSeconds(requests[r].endpoint)
        /\ \A k \in KvKeys :
               /\ (kv[k].present /\ ~kv'[k].present) => TimePasses
               /\ (kv[k].present /\ kv'[k].present /\ TimePasses) =>
                      /\ kv'[k].value = kv[k].value
                      /\ kv'[k].ttl < kv[k].ttl
                      /\ kv'[k].ttl > 0 ]_vars

\* half a window after the client's first article of the window was
\* served a second one was served, and half a window later, a whole window
\* after the first, the counter is still stored and counts both
C38_Witness ==
    \E r1, r2 \in Requests :
        /\ r1 < r2
        /\ requests[r1].endpoint = "article"
        /\ requests[r2].endpoint = "article"
        /\ requests[r1].ip = ClientIp
        /\ requests[r2].ip = ClientIp
        /\ requests[r1].resp.status = 200
        /\ requests[r2].resp.status = 200
        /\ requests[r1].current = 0
        /\ requests[r2].current = 1
        /\ kv[<<"rate", "article", ClientIp>>] =
               Stored(<<"2">>, WindowSeconds("article") \div 2)

(***************************************************************************)
(* C39: in every ParsedArticle returned by parseArticle, every paragraph   *)
(* has at least one sentence and every sentence has non-empty text; a      *)
(* sentence's words list is empty only when its text consists solely of    *)
(* the stripped punctuation characters.                                    *)
(***************************************************************************)
\* every character of s is one of the given characters
ConsistsOf(s, chars) == \A n \in 1..Len(s) : s[n] \in chars

\* every paragraph has a sentence, every sentence has text, and a sentence
\* without words has nothing but the given characters in its text
WellFormedArticle(article, wordless) ==
    \A i \in 1..Len(article.paragraphs) :
        LET ss == article.paragraphs[i].sentences
        IN  /\ Len(ss) >= 1
            /\ \A j \in 1..Len(ss) :
                   /\ ss[j].text # << >>
                   /\ ss[j].words = << >> => ConsistsOf(ss[j].text, wordless)

C39_WordlessSentenceIsPunctuation ==
    parsed.tag = "return" =>
        WellFormedArticle(parsed.value, ListedPunctuation)

(***************************************************************************)
(* C39, amended: every paragraph has at least one sentence and every       *)
(* sentence has non-empty text; a sentence's words list is empty only when *)
(* its text consists solely of the stripped punctuation characters and     *)
(* white space.                                                            *)
(***************************************************************************)
C39_WordlessSentenceIsPunctuationAndSpace ==
    parsed.tag = "return" =>
        WellFormedArticle(parsed.value, ListedPunctuation \cup WHITESPACE)

\* the body ", ." gave one paragraph of one sentence, whose text is ", ."
\* and which has no words
C39_Witness ==
    /\ parsed.tag = "return"
    /\ BodyOf(html) = <<",", " ", ".">>
    /\ Len(parsed.value.paragraphs) = 1
    /\ parsed.value.paragraphs[1].sentences =
           << [text |-> <<",", " ", ".">>, words |-> << >>] >>

=============================================================================
